---- MODULE Spec2Model ----
(***************************************************************************)
(* The scheduling engine of friendsocial: recurring-series creation,       *)
(* ad-hoc multi-date creation with conflict detection, and series decline, *)
(* over the occurrence and participation tables.                           *)
(*                                                                         *)
(* Time.  An instant is a number of minutes since 2025-01-01T00:00Z.  A    *)
(* calendar day is a day number counted from 2025-01-01 (day 0, a          *)
(* Wednesday); the years 2025..2027 covered by the model are not leap      *)
(* years.  A time zone is a standard offset plus the day intervals during  *)
(* which daylight-saving time adds one hour.                               *)
(***************************************************************************)
EXTENDS Integers, Sequences, FiniteSets, TLC

VARIABLES
    now,         \* the current instant (time.Now() and the store's NOW())
    srvZone,     \* name of the zone of the host: Go's time.Local and the session zone of the store on localhost
    activities,  \* table activities: id -> estimated_time in minutes
    prefs,       \* table user_activity_preferences: id -> row
    roster,      \* table user_activity_preferences_participants: set of <<preference id, user id>>
    occs,        \* table scheduled_activities (committed rows)
    parts,       \* table activity_participants (committed rows)
    occSeq,      \* next value of the id sequence of scheduled_activities
    partSeq,     \* next value of the id sequence of activity_participants
    last,        \* the last completed call: its name, arguments and result
    prev,        \* the call completed before the last one
    pre,         \* the tables as they were when the last call started
    nOps,        \* number of calls made so far
    repeatTx,    \* the open CreateRepeatingScheduledActivity transactions, statement by statement
    declineTx,   \* the open DeclineRepeatedActivity transactions, statement by statement
    view,        \* what the last read statement returned
    multipleCall, \* the CreateMultiple invocations in progress, statement by statement
    mutex,       \* the sync.Mutex of the scheduled-activities service: 0 when unlocked, else the goroutine that holds it
    lockedCall   \* the calls of the variant of the service that locks in CreateRepeatingScheduledActivity, per goroutine

vars == <<now, srvZone, activities, prefs, roster, occs, parts, occSeq, partSeq, last, prev, pre, nOps,
          repeatTx, declineTx, view, multipleCall, mutex, lockedCall>>

stmts == <<repeatTx, declineTx, view, multipleCall, mutex, lockedCall>>

----------------------------------------------------------------------------
(* Calendar and zones *)

MinutesPerDay == 24 * 60

\* cumulative days before each month of a non-leap year
DaysBeforeMonth == <<0, 31, 59, 90, 120, 151, 181, 212, 243, 273, 304, 334>>

\* time.Date's normalisation: months beyond December carry into the year, days
\* beyond the end of the month carry into the following month
DayFromCivil(y, m, d) ==
    LET yy == y + ((m - 1) \div 12)
        mm == ((m - 1) % 12) + 1
    IN  365 * yy + DaysBeforeMonth[mm] + (d - 1)

CivilYear(n) == n \div 365

CivilMonth(n) ==
    LET doy == n % 365
    IN  CHOOSE m \in 1..12 :
            /\ DaysBeforeMonth[m] <= doy
            /\ (m = 12 \/ doy < DaysBeforeMonth[m + 1])

CivilDay(n) == (n % 365) - DaysBeforeMonth[CivilMonth(n)] + 1

\* time.Weekday of a day number: Sunday = 0; day 0 is a Wednesday
Weekday(n) == (n + 3) % 7

\* the zones the host knows (the IANA database): UTC, and a zone with
\* daylight-saving time from the second Sunday of March (2025-03-09, 2026-03-08)
\* to the first Sunday of November (2025-11-02, 2026-11-01)
ZoneTable ==
    [ z \in {"UTC", "America/Toronto"} |->
        IF z = "UTC"
        THEN [std |-> 0, dst |-> <<>>]
        ELSE [std |-> -300, dst |-> << <<67, 305>>, <<431, 669>> >>] ]

\* offset from UTC, in minutes, in force on a local day
Offset(z, day) ==
    z.std + (IF \E i \in 1..Len(z.dst) : z.dst[i][1] <= day /\ day < z.dst[i][2]
             THEN 60 ELSE 0)

\* wall clock of an instant in a zone
LocalMinutes(t, z) == t + Offset(z, (t + z.std) \div MinutesPerDay)
LocalDay(t, z) == LocalMinutes(t, z) \div MinutesPerDay
LocalTod(t, z) == LocalMinutes(t, z) % MinutesPerDay

\* time.Date(year, month, day, hour, min, sec, 0, loc)
FromLocal(day, tod, z) == day * MinutesPerDay + tod - Offset(z, day)

\* t.AddDate(0, months, days): calendar arithmetic on the wall clock of the
\* time's own location, the time of day kept
AddDate(t, z, months, days) ==
    LET n == LocalDay(t, z)
    IN  FromLocal(DayFromCivil(CivilYear(n), CivilMonth(n) + months, CivilDay(n)) + days,
                  LocalTod(t, z), z)

\* time.LoadLocation
LoadLocation(tz) ==
    IF tz \in DOMAIN ZoneTable
    THEN [ok |-> TRUE, loc |-> ZoneTable[tz]]
    ELSE [ok |-> FALSE, loc |-> ZoneTable["UTC"]]

Local == ZoneTable[srvZone]

----------------------------------------------------------------------------
(* Parsing of the request strings *)

\* strconv.Atoi on a trimmed token: the decimal strings the model uses
AtoiTable ==
    [ s \in {"0", "1", "2", "3", "4", "5", "6", "7", "9", "-1"} |->
        CASE s = "0" -> 0 [] s = "1" -> 1 [] s = "2" -> 2 [] s = "3" -> 3
          [] s = "4" -> 4 [] s = "5" -> 5 [] s = "6" -> 6 [] s = "7" -> 7
          [] s = "9" -> 9 [] s = "-1" -> 0 - 1 ]

\* the loop over strings.Split(preference.DaysOfWeek, ","): the weekdays in
\* order, or an error at the first token Atoi rejects.  DaysOfWeek is held as
\* the sequence of its comma-separated tokens; the empty string is <<"">>.
RECURSIVE ParseDaysOfWeek(_)
ParseDaysOfWeek(tokens) ==
    IF tokens = <<>> THEN [ok |-> TRUE, days |-> <<>>]
    ELSE IF Head(tokens) \notin DOMAIN AtoiTable THEN [ok |-> FALSE, days |-> <<>>]
    ELSE LET rest == ParseDaysOfWeek(Tail(tokens))
         IN  [ok |-> rest.ok,
              days |-> IF rest.ok THEN <<AtoiTable[Head(tokens)]>> \o rest.days ELSE <<>>]

\* time.Parse(time.RFC3339, s): a well-formed string gives its wall-clock time
\* of day (hour, minute, second), here in minutes; s is [valid, tod]
ParseRFC3339(s) == [ok |-> s.valid, tod |-> s.tod]

----------------------------------------------------------------------------
(* Recurrence *)

HoursPerWeek == 168
HoursPerMonth == 730
HorizonMonths == 6

NoPref == 0   \* user_activity_preference_id IS NULL

containsWeekdayShifted(days, day) == \E i \in 1..Len(days) : days[i] = (day + 1) % 7

containsWeekday(days, day) == \E i \in 1..Len(days) : days[i] = day

\* int(currentDate.Sub(startDate).Hours() / hours): the elapsed time is never
\* negative, so the conversion truncates downwards
PeriodsSince(currentDate, startDate, hours) == (currentDate - startDate) \div (60 * hours)

\* Go's a % b for a >= 0 and b # 0: the remainder has the sign of a
GoRem(a, b) == a % (IF b < 0 THEN 0 - b ELSE b)

\* the integer division by zero of weeksSinceStart % preference.Frequency
DividesByZero(preference) ==
    preference.frequency_period \in {"week", "month"} /\ preference.frequency = 0

shouldScheduleActivityThirtyDayMonth(preference, currentDate, startDate) ==
    CASE preference.frequency_period = "week" ->
            GoRem(PeriodsSince(currentDate, startDate, HoursPerWeek), preference.frequency) = 0
      [] preference.frequency_period = "month" ->
            GoRem(PeriodsSince(currentDate, startDate, 720), preference.frequency) = 0
      [] OTHER -> FALSE

shouldScheduleActivityAnyPeriodWeekly(preference, currentDate, startDate) ==
    CASE preference.frequency_period = "month" ->
            GoRem(PeriodsSince(currentDate, startDate, HoursPerMonth), preference.frequency) = 0
      [] OTHER ->
            GoRem(PeriodsSince(currentDate, startDate, HoursPerWeek), preference.frequency) = 0

shouldScheduleActivity(preference, currentDate, startDate) ==
    CASE preference.frequency_period = "week" ->
            GoRem(PeriodsSince(currentDate, startDate, HoursPerWeek), preference.frequency) = 0
      [] preference.frequency_period = "month" ->
            GoRem(PeriodsSince(currentDate, startDate, HoursPerMonth), preference.frequency) = 0
      [] OTHER -> FALSE

\* currentDate after d rounds of currentDate.AddDate(0, 0, 1) from a start on
\* local day day0 at time of day tod0: the wall clock d calendar days later
CurrentDate(day0, tod0, zone, d) == FromLocal(day0 + d, tod0, zone)

\* the days the loop visits, as day counts from the call: currentDate while it
\* is Before(sixMonthsLater)
WalkedUntil(day0, tod0, zone, sixMonthsLater) ==
    { d \in 0..(LocalDay(sixMonthsLater, zone) - day0) :
        CurrentDate(day0, tod0, zone, d) < sixMonthsLater }

WalkedDays(startDate, zone) ==
    WalkedUntil(LocalDay(startDate, zone), LocalTod(startDate, zone), zone,
                AddDate(startDate, zone, HorizonMonths, 0))

\* the walked days that pass the weekday filter
WeekdayDaysFrom(daysOfWeek, walked, day0) ==
    { d \in walked : containsWeekday(daysOfWeek, Weekday(day0 + d)) }

WeekdayDays(daysOfWeek, startDate, zone) ==
    WeekdayDaysFrom(daysOfWeek, WalkedDays(startDate, zone), LocalDay(startDate, zone))

\* the walked days for which an occurrence is collected
KeptDaysFrom(preference, candidates, startDate, day0, tod0, zone) ==
    { d \in candidates :
        shouldScheduleActivity(preference, CurrentDate(day0, tod0, zone, d), startDate) }

KeptDays(preference, daysOfWeek, startDate, zone) ==
    KeptDaysFrom(preference, WeekdayDays(daysOfWeek, startDate, zone), startDate,
                 LocalDay(startDate, zone), LocalTod(startDate, zone), zone)

\* scheduledAt of a kept day: the date of currentDate with the parsed start
\* time of day, in the request's location
ScheduledAt(d, day0, tod, loc) == FromLocal(day0 + d, tod, loc)

----------------------------------------------------------------------------
(* The recurring-series writer *)

Rank(x, S) == Cardinality({y \in S : y < x})

TxEffectNoRollback(status, rows) == rows

\* rows of a transaction that reach the tables: all of them once Commit has
\* succeeded, none when the deferred Rollback ends the transaction
TxEffect(status, rows) == IF status = "ok" THEN rows ELSE {}

\* the rows of the batch INSERT INTO scheduled_activities, with the ids the
\* sequence returns in the order of the collected days
OccurrenceRows(preference, kept, day0, tod, loc, seqO) ==
    { [id           |-> seqO + Rank(d, kept),
       activity_id  |-> preference.activity_id,
       is_active    |-> TRUE,
       scheduled_at |-> ScheduledAt(d, day0, tod, loc),
       pref         |-> preference.id] : d \in kept }

RosterOfAnyPreference(rosterRows, pid) == { r[2] : r \in rosterRows }

\* SELECT user_id FROM user_activity_preferences_participants WHERE user_activity_preference_id = $1
RosterOf(rosterRows, pid) == { r[2] : r \in { q \in rosterRows : q[1] = pid } }

\* the rows of the batch INSERT INTO activity_participants: one per collected
\* occurrence and roster user
ParticipantRows(occIds, users, seqP) ==
    { [id            |-> seqP + Rank(p[1], occIds) * Cardinality(users) + Rank(p[2], users),
       user_id       |-> p[2],
       occ           |-> p[1],
       invite_status |-> "Pending"] : p \in occIds \X users }

\* the statements after the walk, in order: insert the occurrences (if any),
\* read the roster, insert the participations (if any), commit
RepeatWrite(newOccs, users, fault, seqO, seqP) ==
    LET occFails   == newOccs # {} /\ fault = "occInsert"
        readFails  == ~occFails /\ fault = "rosterRead"
        occIds     == IF occFails THEN {} ELSE {o.id : o \in newOccs}
        partFails  == ~occFails /\ ~readFails /\ occIds # {} /\ users # {} /\ fault = "partInsert"
        partsRun   == ~occFails /\ ~readFails /\ ~partFails
        commitFails == partsRun /\ fault = "commit"
    IN  [ status   |-> IF occFails \/ readFails \/ partFails \/ commitFails THEN "error" ELSE "ok",
          stage    |-> IF occFails THEN "occInsert"
                       ELSE IF readFails THEN "rosterRead"
                       ELSE IF partFails THEN "partInsert"
                       ELSE IF commitFails THEN "commit"
                       ELSE "done",
          newOccs  |-> IF occFails THEN {} ELSE newOccs,
          newParts |-> IF partsRun THEN ParticipantRows(occIds, users, seqP) ELSE {},
          occSeq   |-> seqO + (IF occFails THEN 0 ELSE Cardinality(newOccs)),
          partSeq  |-> seqP + (IF partsRun THEN Cardinality(occIds) * Cardinality(users) ELSE 0) ]

Abort(status, stage, seqO, seqP) ==
    [ status |-> status, stage |-> stage, newOccs |-> {}, newParts |-> {},
      occSeq |-> seqO, partSeq |-> seqP ]

\* the walk and what follows it, the request strings parsed
RepeatWalk(preference, daysOfWeek, tod, loc, fault, startDate, zone, seqO, seqP, rosterRows) ==
    IF DividesByZero(preference) /\ WeekdayDays(daysOfWeek, startDate, zone) # {}
    THEN Abort("panic", "walk", seqO, seqP)
    ELSE RepeatWrite(
            OccurrenceRows(preference, KeptDays(preference, daysOfWeek, startDate, zone),
                           LocalDay(startDate, zone), tod, loc, seqO),
            RosterOf(rosterRows, preference.id), fault, seqO, seqP)

RepeatPlanParsingInLoop(preference, startTime, timeZone, fault, startDate, zone, seqO, seqP, rosterRows) ==
    LET parsed == ParseDaysOfWeek(preference.days_of_week)
        candidates == WeekdayDays(parsed.days, startDate, zone)
    IN  IF ~parsed.ok THEN Abort("error", "days", seqO, seqP)
        ELSE IF DividesByZero(preference) /\ candidates # {} THEN Abort("panic", "walk", seqO, seqP)
        ELSE IF KeptDays(preference, parsed.days, startDate, zone) = {}
             THEN RepeatWrite({}, RosterOf(rosterRows, preference.id), fault, seqO, seqP)
        ELSE IF ~LoadLocation(timeZone).ok THEN Abort("error", "zone", seqO, seqP)
        ELSE IF ~ParseRFC3339(startTime).ok THEN Abort("error", "time", seqO, seqP)
        ELSE RepeatWalk(preference, parsed.days, ParseRFC3339(startTime).tod,
                        LoadLocation(timeZone).loc, fault, startDate, zone, seqO, seqP, rosterRows)

\* What one call of CreateRepeatingScheduledActivity does, given the instant of
\* the call, the host zone, the sequences and the roster rows it reads.  fault
\* names the store statement that fails, if any.
RepeatPlan(preference, startTime, timeZone, fault, startDate, zone, seqO, seqP, rosterRows) ==
    IF ~ParseDaysOfWeek(preference.days_of_week).ok THEN Abort("error", "days", seqO, seqP)
    ELSE IF ~LoadLocation(timeZone).ok THEN Abort("error", "zone", seqO, seqP)
    ELSE IF ~ParseRFC3339(startTime).ok THEN Abort("error", "time", seqO, seqP)
    ELSE RepeatWalk(preference, ParseDaysOfWeek(preference.days_of_week).days,
                    ParseRFC3339(startTime).tod, LoadLocation(timeZone).loc,
                    fault, startDate, zone, seqO, seqP, rosterRows)

----------------------------------------------------------------------------
(* Series decline *)

OwningPreferenceNullAsZero(occRows, scheduledActivityID) ==
    LET rows == { o \in occRows : o.id = scheduledActivityID }
    IN  IF rows = {} THEN [ok |-> FALSE, pref |-> NoPref]
        ELSE [ok |-> TRUE, pref |-> (CHOOSE r \in rows : TRUE).pref]

\* SELECT user_activity_preference_id FROM scheduled_activities WHERE id = $1,
\* scanned into an int: no row and a NULL are both errors
OwningPreference(occRows, scheduledActivityID) ==
    LET rows == { o \in occRows : o.id = scheduledActivityID }
    IN  IF rows = {} THEN [ok |-> FALSE, pref |-> NoPref]
        ELSE LET o == CHOOSE r \in rows : TRUE
             IN  [ok |-> o.pref # NoPref, pref |-> o.pref]

\* SELECT id FROM scheduled_activities
\*   WHERE user_activity_preference_id = $2 AND scheduled_at >= NOW()
FutureIdsOfSeries(occRows, pid, instant) ==
    { o.id : o \in { q \in occRows : q.pref = pid /\ q.scheduled_at >= instant } }

\* DELETE FROM activity_participants
\*   WHERE user_id = $1 AND scheduled_activity_id IN (ids)
ParticipationsIn(partRows, userID, ids) ==
    { p \in partRows : p.user_id = userID /\ p.occ \in ids }

DeclinedRowsAnyPreference(occRows, partRows, userID, pid, instant) ==
    ParticipationsIn(partRows, userID,
                     { o.id : o \in { q \in occRows : q.scheduled_at >= instant } })

\* the rows the DELETE of DeclineRepeatedActivity removes
DeclinedRows(occRows, partRows, userID, pid, instant) ==
    ParticipationsIn(partRows, userID, FutureIdsOfSeries(occRows, pid, instant))

DeclinePlanNotFound(occRows, partRows, userID, scheduledActivityID, instant) ==
    LET owner == OwningPreference(occRows, scheduledActivityID)
        rows  == DeclinedRows(occRows, partRows, userID, owner.pref, instant)
    IN  IF ~owner.ok \/ rows = {}
        THEN [status |-> "error", deleted |-> {}]
        ELSE [status |-> "ok", deleted |-> rows]

\* What one call of DeclineRepeatedActivity does
DeclinePlan(occRows, partRows, userID, scheduledActivityID, instant) ==
    LET owner == OwningPreference(occRows, scheduledActivityID)
    IN  IF ~owner.ok
        THEN [status |-> "error", deleted |-> {}]
        ELSE [status |-> "ok",
              deleted |-> DeclinedRows(occRows, partRows, userID, owner.pref, instant)]

----------------------------------------------------------------------------
(* The calls, each run to completion *)

MaxOps == 2

Users == {1, 2}
StartTimes == { [valid |-> TRUE, tod |-> 8 * 60], [valid |-> TRUE, tod |-> 10 * 60] }
Faults == {"none", "occInsert", "rosterRead", "partInsert", "commit"}

Tables == [occs |-> occs, parts |-> parts]

CreateRepeatingSkippingConflicts(pid, startTime, timeZone, fault) ==
    /\ nOps < MaxOps
    /\ \E plan \in {RepeatPlan(prefs[pid], startTime, timeZone, fault, now, Local,
                                occSeq, partSeq, roster)} :
         \E free \in {{ o \in TxEffect(plan.status, plan.newOccs) :
                          ~\E q \in occs : /\ q.activity_id = o.activity_id
                                            /\ q.scheduled_at = o.scheduled_at }} :
           /\ occs' = occs \cup free
           /\ parts' = parts \cup { p \in TxEffect(plan.status, plan.newParts) :
                                      p.occ \in { o.id : o \in free } }
           /\ occSeq' = plan.occSeq
           /\ partSeq' = plan.partSeq
           /\ last' = [op |-> "repeat", pref |-> pid, startTime |-> startTime,
                       timeZone |-> timeZone, fault |-> fault,
                       status |-> plan.status, stage |-> plan.stage,
                       result |-> { o.id : o \in free },
                       inserted |-> {o.id : o \in plan.newOccs},
                       at |-> now]
    /\ prev' = last
    /\ pre' = Tables
    /\ nOps' = nOps + 1
    /\ UNCHANGED <<now, srvZone, activities, prefs, roster>>
    /\ UNCHANGED stmts

CreateRepeatingScheduledActivity(pid, startTime, timeZone, fault) ==
    /\ nOps < MaxOps
    /\ \E plan \in {RepeatPlan(prefs[pid], startTime, timeZone, fault, now, Local,
                                occSeq, partSeq, roster)} :
           /\ occs' = occs \cup TxEffect(plan.status, plan.newOccs)
           /\ parts' = parts \cup TxEffect(plan.status, plan.newParts)
           /\ occSeq' = plan.occSeq
           /\ partSeq' = plan.partSeq
           /\ last' = [op |-> "repeat", pref |-> pid, startTime |-> startTime,
                       timeZone |-> timeZone, fault |-> fault,
                       status |-> plan.status, stage |-> plan.stage,
                       result |-> IF plan.status = "ok" THEN {o.id : o \in plan.newOccs} ELSE {},
                       inserted |-> {o.id : o \in plan.newOccs},
                       at |-> now]
    /\ prev' = last
    /\ pre' = Tables
    /\ nOps' = nOps + 1
    /\ UNCHANGED <<now, srvZone, activities, prefs, roster>>
    /\ UNCHANGED stmts

DeclineRepeatedActivityLeavingRoster(userID, scheduledActivityID) ==
    /\ nOps < MaxOps
    /\ \E plan \in {DeclinePlan(occs, parts, userID, scheduledActivityID, now)} :
           /\ parts' = parts \ TxEffect(plan.status, plan.deleted)
           /\ roster' = IF plan.status = "ok"
                        THEN roster \ { <<OwningPreference(occs, scheduledActivityID).pref, userID>> }
                        ELSE roster
           /\ last' = [op |-> "decline", user |-> userID, occ |-> scheduledActivityID,
                       status |-> plan.status, deleted |-> Cardinality(plan.deleted),
                       at |-> now]
    /\ prev' = last
    /\ pre' = Tables
    /\ nOps' = nOps + 1
    /\ UNCHANGED <<now, srvZone, activities, prefs, occs, occSeq, partSeq>>
    /\ UNCHANGED stmts

DeclineRepeatedActivity(userID, scheduledActivityID) ==
    /\ nOps < MaxOps
    /\ \E plan \in {DeclinePlan(occs, parts, userID, scheduledActivityID, now)} :
           /\ parts' = parts \ TxEffect(plan.status, plan.deleted)
           /\ last' = [op |-> "decline", user |-> userID, occ |-> scheduledActivityID,
                       status |-> plan.status, deleted |-> Cardinality(plan.deleted),
                       at |-> now]
    /\ prev' = last
    /\ pre' = Tables
    /\ nOps' = nOps + 1
    /\ UNCHANGED <<now, srvZone, activities, prefs, roster, occs, occSeq, partSeq>>
    /\ UNCHANGED stmts

CreateParticipantPlanNoUnique(occRows, partRows, seqP, participant) ==
    IF ~\E o \in occRows : o.id = participant.occ
    THEN [status |-> "error", parts |-> partRows, partSeq |-> seqP + 1]
    ELSE [status |-> "ok", partSeq |-> seqP + 1,
          parts |-> partRows \cup { [id |-> seqP, user_id |-> participant.user_id,
                                     occ |-> participant.occ, invite_status |-> "Pending"] }]

\* Create of activity_participants: INSERT (user_id, scheduled_activity_id)
\* RETURNING id.  The status of the request is not part of the statement, the
\* column takes its default; the foreign key on the occurrence and the unique
\* (user_id, scheduled_activity_id) reject the row; the sequence value is
\* used either way.
CreateParticipantPlan(occRows, partRows, seqP, participant) ==
    LET fkOk == \E o \in occRows : o.id = participant.occ
        uqOk == ~\E p \in partRows :
                    p.user_id = participant.user_id /\ p.occ = participant.occ
    IN  IF ~fkOk \/ ~uqOk
        THEN [status |-> "error", parts |-> partRows, partSeq |-> seqP + 1]
        ELSE [status |-> "ok", partSeq |-> seqP + 1,
              parts |-> partRows \cup { [id |-> seqP, user_id |-> participant.user_id,
                                         occ |-> participant.occ,
                                         invite_status |-> "Pending"] }]

CreateParticipant(participant) ==
    /\ nOps < MaxOps
    /\ \E plan \in {CreateParticipantPlan(occs, parts, partSeq, participant)} :
           /\ parts' = plan.parts
           /\ partSeq' = plan.partSeq
           /\ last' = [op |-> "createParticipant", id |-> partSeq, status |-> plan.status,
                       user |-> participant.user_id, occ |-> participant.occ,
                       invite |-> participant.invite_status, at |-> now]
    /\ prev' = last
    /\ pre' = Tables
    /\ nOps' = nOps + 1
    /\ UNCHANGED <<now, srvZone, activities, prefs, roster, occs, occSeq>>
    /\ UNCHANGED stmts

UpdatePlanEveryRow(occRows, acts, prefRows, id, scheduledActivity) ==
    LET fkOk == /\ scheduledActivity.activity_id \in DOMAIN acts
                /\ (scheduledActivity.pref = NoPref \/ scheduledActivity.pref \in DOMAIN prefRows)
    IN  IF occRows = {} THEN [status |-> "ok", found |-> FALSE, occs |-> occRows]
        ELSE IF ~fkOk THEN [status |-> "error", found |-> FALSE, occs |-> occRows]
        ELSE [status |-> "ok", found |-> TRUE,
              occs |-> { [id           |-> o.id,
                          activity_id  |-> scheduledActivity.activity_id,
                          is_active    |-> scheduledActivity.is_active,
                          scheduled_at |-> scheduledActivity.scheduled_at,
                          pref         |-> scheduledActivity.pref] : o \in occRows }]

\* UPDATE scheduled_activities SET activity_id, is_active, scheduled_at,
\* user_activity_preference_id WHERE id = $5: no row matched is found = false
\* without an error; the foreign keys on the activity and on the preference
\* reject the statement when a row matches
UpdatePlan(occRows, acts, prefRows, id, scheduledActivity) ==
    LET rows == { o \in occRows : o.id = id }
        fkOk == /\ scheduledActivity.activity_id \in DOMAIN acts
                /\ (scheduledActivity.pref = NoPref \/ scheduledActivity.pref \in DOMAIN prefRows)
    IN  IF rows = {} THEN [status |-> "ok", found |-> FALSE, occs |-> occRows]
        ELSE IF ~fkOk THEN [status |-> "error", found |-> FALSE, occs |-> occRows]
        ELSE [status |-> "ok", found |-> TRUE,
              occs |-> (occRows \ rows) \cup
                       { [id           |-> id,
                          activity_id  |-> scheduledActivity.activity_id,
                          is_active    |-> scheduledActivity.is_active,
                          scheduled_at |-> scheduledActivity.scheduled_at,
                          pref         |-> scheduledActivity.pref] }]

Update(id, scheduledActivity) ==
    /\ nOps < MaxOps
    /\ \E plan \in {UpdatePlan(occs, activities, prefs, id, scheduledActivity)} :
           /\ occs' = plan.occs
           /\ last' = [op |-> "update", id |-> id, status |-> plan.status,
                       found |-> plan.found, body |-> scheduledActivity, at |-> now]
    /\ prev' = last
    /\ pre' = Tables
    /\ nOps' = nOps + 1
    /\ UNCHANGED <<now, srvZone, activities, prefs, roster, parts, occSeq, partSeq>>
    /\ UNCHANGED stmts

DeletePlanNoCascade(occRows, partRows, id) ==
    [found |-> \E o \in occRows : o.id = id,
     occs  |-> { o \in occRows : o.id # id },
     parts |-> partRows]

\* DELETE FROM scheduled_activities WHERE id = $1: the row goes, and with it,
\* by ON DELETE CASCADE, the participations that reference it
DeletePlan(occRows, partRows, id) ==
    [found |-> \E o \in occRows : o.id = id,
     occs  |-> { o \in occRows : o.id # id },
     parts |-> { p \in partRows : p.occ # id }]

Delete(id) ==
    /\ nOps < MaxOps
    /\ \E plan \in {DeletePlan(occs, parts, id)} :
           /\ occs' = plan.occs
           /\ parts' = plan.parts
           /\ last' = [op |-> "delete", id |-> id, status |-> "ok", found |-> plan.found,
                       at |-> now]
    /\ prev' = last
    /\ pre' = Tables
    /\ nOps' = nOps + 1
    /\ UNCHANGED <<now, srvZone, activities, prefs, roster, occSeq, partSeq>>
    /\ UNCHANGED stmts

\* Update of activity_participants by id: the row with that id takes the
\* user, the occurrence and the status of the request body.  The foreign key
\* on the occurrence and the unique (user_id, scheduled_activity_id) reject
\* the statement.
UpdateParticipantPlan(occRows, partRows, id, participant) ==
    LET rows == { p \in partRows : p.id = id }
        fkOk == \E o \in occRows : o.id = participant.occ
        uqOk == ~\E p \in partRows :
                    p.id # id /\ p.user_id = participant.user_id /\ p.occ = participant.occ
    IN  IF rows = {} THEN [status |-> "ok", found |-> FALSE, parts |-> partRows]
        ELSE IF ~fkOk \/ ~uqOk THEN [status |-> "error", found |-> FALSE, parts |-> partRows]
        ELSE [status |-> "ok", found |-> TRUE,
              parts |-> (partRows \ rows) \cup
                        { [id |-> id, user_id |-> participant.user_id,
                           occ |-> participant.occ,
                           invite_status |-> participant.invite_status] }]

UpdateParticipant(id, participant) ==
    /\ nOps < MaxOps
    /\ \E plan \in {UpdateParticipantPlan(occs, parts, id, participant)} :
           /\ parts' = plan.parts
           /\ last' = [op |-> "updateParticipant", id |-> id, status |-> plan.status,
                       found |-> plan.found, user |-> participant.user_id,
                       occ |-> participant.occ, invite |-> participant.invite_status,
                       at |-> now]
    /\ prev' = last
    /\ pre' = Tables
    /\ nOps' = nOps + 1
    /\ UNCHANGED <<now, srvZone, activities, prefs, roster, occs, occSeq, partSeq>>
    /\ UNCHANGED stmts

\* time passes
Tick(minutes) ==
    /\ nOps < MaxOps
    /\ now' = now + minutes
    /\ nOps' = nOps + 1
    /\ UNCHANGED <<srvZone, activities, prefs, roster, occs, parts, occSeq, partSeq,
                   last, prev, pre>>
    /\ UNCHANGED stmts

----------------------------------------------------------------------------
(* Ad-hoc creation and the conflict check *)

\* Create: INSERT INTO scheduled_activities ... RETURNING id.  The foreign
\* keys on the activity and on the preference reject the row; the sequence
\* value is used either way.
CreatePlan(occRows, seq, acts, prefRows, scheduledActivity) ==
    LET fkOk == /\ scheduledActivity.activity_id \in DOMAIN acts
                /\ (scheduledActivity.pref = NoPref \/ scheduledActivity.pref \in DOMAIN prefRows)
        row  == [id           |-> seq,
                 activity_id  |-> scheduledActivity.activity_id,
                 is_active    |-> scheduledActivity.is_active,
                 scheduled_at |-> scheduledActivity.scheduled_at,
                 pref         |-> scheduledActivity.pref]
    IN  [ok   |-> fkOk,
         id   |-> seq,
         occs |-> IF fkOk THEN occRows \cup {row} ELSE occRows,
         seq  |-> seq + 1]

\* getEstimatedTime: the activity's estimated_time, an error when no row matches
getEstimatedTime(acts, activityID) ==
    IF activityID \in DOMAIN acts
    THEN [ok |-> TRUE, duration |-> acts[activityID]]
    ELSE [ok |-> FALSE, duration |-> 0]

\* SELECT ... FROM scheduled_activities WHERE DATE(scheduled_at) = $1, with $1
\* the date of the candidate formatted in the request's location; DATE() of a
\* timestamptz is its calendar date in the session's zone
OccurrencesOnDate(occRows, date, loc, sessionZone) ==
    { o \in occRows : LocalDay(o.scheduled_at, sessionZone) = LocalDay(date, loc) }

\* the overlap test of one existing occurrence against the desired window
Overlaps(activityStart, activityEnd, desiredStart, desiredEnd) ==
    activityStart < desiredEnd /\ activityEnd > desiredStart

checkIfUserIsAvailable(date, desiredStartTod, desiredEndTod, loc, sessionZone, occRows, acts) ==
    LET desiredStart == FromLocal(LocalDay(date, loc), desiredStartTod, loc)
        desiredEnd   == FromLocal(LocalDay(date, loc), desiredEndTod, loc)
        rows         == OccurrencesOnDate(occRows, date, loc, sessionZone)
    IN  [ok        |-> \A o \in rows : getEstimatedTime(acts, o.activity_id).ok,
         available |-> ~\E o \in rows :
                          /\ getEstimatedTime(acts, o.activity_id).ok
                          /\ Overlaps(o.scheduled_at,
                                      o.scheduled_at + getEstimatedTime(acts, o.activity_id).duration,
                                      desiredStart, desiredEnd)]

SkipsPastStart(date, scheduledAt, instant) == scheduledAt < instant

\* "Skip past dates": date.Before(time.Now().In(loc)), date being the midnight
\* that begins the selected date in the request's location
SkipsPastDate(date, scheduledAt, instant) == date < instant

\* the loop of CreateMultiple over the remaining date strings.  A date string
\* is [valid, day].  log records, per date, what the loop did with it; result
\* is the list of created ids.  An error return leaves what earlier rounds
\* inserted: Create runs on the pool, outside any transaction.
RECURSIVE MultipleLoop(_, _, _, _, _, _, _, _, _, _, _, _)
MultipleLoop(dates, activityID, startTod, endTod, loc, sessionZone, instant, acts, prefRows, occRows, seq, acc) ==
    IF dates = <<>>
    THEN [status |-> "ok", occs |-> occRows, seq |-> seq, log |-> acc.log, result |-> acc.result]
    ELSE
      LET dateStr == Head(dates)
          date    == FromLocal(dateStr.day, 0, loc)
          scheduledAt == FromLocal(LocalDay(date, loc), startTod, loc)
          check   == checkIfUserIsAvailable(scheduledAt, startTod, endTod, loc, sessionZone,
                                            occRows, acts)
          created == CreatePlan(occRows, seq, acts, prefRows,
                                [activity_id |-> activityID, is_active |-> TRUE,
                                 scheduled_at |-> scheduledAt, pref |-> NoPref])
          Entry(outcome, id) == [day |-> dateStr.day, outcome |-> outcome, id |-> id]
          Failed(outcome, s) ==
              [status |-> "error", occs |-> occRows, seq |-> s,
               log |-> Append(acc.log, Entry(outcome, 0)), result |-> <<>>]
          Skip(outcome) ==
              MultipleLoop(Tail(dates), activityID, startTod, endTod, loc, sessionZone, instant,
                           acts, prefRows, occRows, seq,
                           [log |-> Append(acc.log, Entry(outcome, 0)), result |-> acc.result])
      IN  IF ~dateStr.valid THEN Failed("badDate", seq)
          ELSE IF SkipsPastDate(date, scheduledAt, instant) THEN Skip("past")
          ELSE IF ~check.ok THEN Failed("checkError", seq)
          ELSE IF ~check.available THEN Skip("conflict")
          ELSE IF ~created.ok THEN Failed("insertError", created.seq)
          ELSE MultipleLoop(Tail(dates), activityID, startTod, endTod, loc, sessionZone, instant,
                            acts, prefRows, created.occs, created.seq,
                            [log |-> Append(acc.log, Entry("created", created.id)),
                             result |-> Append(acc.result, created.id)])

\* What one call of CreateMultiple does
MultiplePlan(activityID, selectedDates, startTime, endTime, timeZone, sessionZone, instant, acts, prefRows, occRows, seq) ==
    IF ~ParseRFC3339(startTime).ok \/ ~ParseRFC3339(endTime).ok \/ ~LoadLocation(timeZone).ok
    THEN [status |-> "error", occs |-> occRows, seq |-> seq, log |-> <<>>, result |-> <<>>]
    ELSE MultipleLoop(selectedDates, activityID, ParseRFC3339(startTime).tod,
                      ParseRFC3339(endTime).tod, LoadLocation(timeZone).loc, sessionZone,
                      instant, acts, prefRows, occRows, seq, [log |-> <<>>, result |-> <<>>])

CreateMultiple(activityID, selectedDates, startTime, endTime, timeZone) ==
    /\ nOps < MaxOps
    /\ \E plan \in {MultiplePlan(activityID, selectedDates, startTime, endTime, timeZone,
                                 Local, now, activities, prefs, occs, occSeq)} :
           /\ occs' = plan.occs
           /\ occSeq' = plan.seq
           /\ last' = [op |-> "multiple", activity |-> activityID, dates |-> selectedDates,
                       startTime |-> startTime, endTime |-> endTime, timeZone |-> timeZone,
                       status |-> plan.status, log |-> plan.log, result |-> plan.result,
                       at |-> now]
    /\ prev' = last
    /\ pre' = Tables
    /\ nOps' = nOps + 1
    /\ UNCHANGED <<now, srvZone, activities, prefs, roster, parts, partSeq>>
    /\ UNCHANGED stmts

Create(scheduledActivity) ==
    /\ nOps < MaxOps
    /\ \E plan \in {CreatePlan(occs, occSeq, activities, prefs, scheduledActivity)} :
           /\ occs' = plan.occs
           /\ occSeq' = plan.seq
           /\ last' = [op |-> "create", status |-> IF plan.ok THEN "ok" ELSE "error",
                       id |-> plan.id, at |-> now]
    /\ prev' = last
    /\ pre' = Tables
    /\ nOps' = nOps + 1
    /\ UNCHANGED <<now, srvZone, activities, prefs, roster, parts, partSeq>>
    /\ UNCHANGED stmts

\* Update of activities by id: estimated_time takes the interval of the
\* request body, a string the store parses.  An interval is [valid, minutes].
UpdateActivityPlan(acts, id, estimatedTime) ==
    IF ~estimatedTime.valid THEN [status |-> "error", found |-> FALSE, acts |-> acts]
    ELSE IF id \notin DOMAIN acts THEN [status |-> "ok", found |-> FALSE, acts |-> acts]
    ELSE [status |-> "ok", found |-> TRUE,
          acts |-> [acts EXCEPT ![id] = estimatedTime.minutes]]

UpdateActivity(id, estimatedTime) ==
    /\ nOps < MaxOps
    /\ \E plan \in {UpdateActivityPlan(activities, id, estimatedTime)} :
           /\ activities' = plan.acts
           /\ last' = [op |-> "updateActivity", id |-> id, status |-> plan.status,
                       found |-> plan.found, at |-> now]
    /\ prev' = last
    /\ pre' = Tables
    /\ nOps' = nOps + 1
    /\ UNCHANGED <<now, srvZone, prefs, roster, occs, parts, occSeq, partSeq>>
    /\ UNCHANGED stmts

----------------------------------------------------------------------------
(* The HTTP handlers of the series, decline and batch requests: what the
   service call does and the status code written.  A request whose handler
   panics gets no response: net/http recovers and closes the connection. *)

StatusCreated == 201
StatusNoContent == 204
StatusBadRequest == 400
StatusNotFound == 404
StatusInternalServerError == 500
NoResponse == 0

\* the zero value of UserActivityPreference, DaysOfWeek the empty string
ZeroPreference ==
    [id |-> 0, user_id |-> 0, activity_id |-> 0, frequency |-> 0,
     frequency_period |-> "", days_of_week |-> <<"">>]

\* Read of the preference service with the id string of the request: an id
\* that is no integer fails in the store, an id that matches no row is
\* found = false with no error and the zero value
PreferenceRead(prefRows, id) ==
    IF id \notin DOMAIN AtoiTable
    THEN [err |-> TRUE, found |-> FALSE, preference |-> ZeroPreference]
    ELSE IF AtoiTable[id] \notin DOMAIN prefRows
    THEN [err |-> FALSE, found |-> FALSE, preference |-> ZeroPreference]
    ELSE [err |-> FALSE, found |-> TRUE, preference |-> prefRows[AtoiTable[id]]]

\* the status code of HandleHTTPPostRepeatScheduledActivity: the handler
\* drops the found flag of Read and maps every error of the service to 500
RepeatResponse(read, status) ==
    IF read.err THEN StatusBadRequest
    ELSE IF status = "ok" THEN StatusCreated
    ELSE IF status = "panic" THEN NoResponse
    ELSE StatusInternalServerError

HandleHTTPPostRepeatScheduledActivity(preferenceID, startTime, timeZone) ==
    /\ nOps < MaxOps
    /\ \E read \in {PreferenceRead(prefs, preferenceID)} :
         \E plan \in {IF read.err THEN Abort("error", "read", occSeq, partSeq)
                       ELSE RepeatPlan(read.preference, startTime, timeZone, "none", now, Local,
                                       occSeq, partSeq, roster)} :
           /\ occs' = occs \cup TxEffect(plan.status, plan.newOccs)
           /\ parts' = parts \cup TxEffect(plan.status, plan.newParts)
           /\ occSeq' = plan.occSeq
           /\ partSeq' = plan.partSeq
           /\ last' = [op |-> "postRepeat", preferenceID |-> preferenceID,
                       startTime |-> startTime, timeZone |-> timeZone,
                       found |-> read.found, status |-> plan.status, stage |-> plan.stage,
                       code |-> RepeatResponse(read, plan.status), at |-> now]
    /\ prev' = last
    /\ pre' = Tables
    /\ nOps' = nOps + 1
    /\ UNCHANGED <<now, srvZone, activities, prefs, roster>>
    /\ UNCHANGED stmts

\* the status code of HandleHTTPPostDeclineRepeatedActivity: 400 for an id
\* string Atoi rejects, 500 for every error of the service, 204 otherwise
DeclineResponse(parsed, status) ==
    IF ~parsed THEN StatusBadRequest
    ELSE IF status = "ok" THEN StatusNoContent
    ELSE StatusInternalServerError

HandleHTTPPostDeclineRepeatedActivity(userID, scheduledActivityID) ==
    /\ nOps < MaxOps
    /\ \E parsed \in {(userID \in DOMAIN AtoiTable) /\ (scheduledActivityID \in DOMAIN AtoiTable)} :
         \E plan \in {IF parsed
                       THEN DeclinePlan(occs, parts, AtoiTable[userID],
                                        AtoiTable[scheduledActivityID], now)
                       ELSE [status |-> "error", deleted |-> {}]} :
           /\ parts' = parts \ TxEffect(plan.status, plan.deleted)
           /\ last' = [op |-> "postDecline", userID |-> userID,
                       scheduledActivityID |-> scheduledActivityID, parsed |-> parsed,
                       status |-> plan.status, deleted |-> Cardinality(plan.deleted),
                       code |-> DeclineResponse(parsed, plan.status), at |-> now]
    /\ prev' = last
    /\ pre' = Tables
    /\ nOps' = nOps + 1
    /\ UNCHANGED <<now, srvZone, activities, prefs, roster, occs, occSeq, partSeq>>
    /\ UNCHANGED stmts

\* the status code of HandleHTTPPostMultiple
MultipleResponse(status) ==
    IF status = "ok" THEN StatusCreated ELSE StatusInternalServerError

HandleHTTPPostMultiple(activityID, selectedDates, startTime, endTime, timeZone) ==
    /\ nOps < MaxOps
    /\ \E plan \in {MultiplePlan(activityID, selectedDates, startTime, endTime, timeZone,
                                 Local, now, activities, prefs, occs, occSeq)} :
           /\ occs' = plan.occs
           /\ occSeq' = plan.seq
           /\ last' = [op |-> "postMultiple", activity |-> activityID, dates |-> selectedDates,
                       startTime |-> startTime, endTime |-> endTime, timeZone |-> timeZone,
                       status |-> plan.status, log |-> plan.log, result |-> plan.result,
                       code |-> MultipleResponse(plan.status), at |-> now]
    /\ prev' = last
    /\ pre' = Tables
    /\ nOps' = nOps + 1
    /\ UNCHANGED <<now, srvZone, activities, prefs, roster, parts, partSeq>>
    /\ UNCHANGED stmts

----------------------------------------------------------------------------
(* The two transactions statement by statement, and the read statements that
   run beside them.  The store runs each statement on the rows committed when
   the statement starts; the rows a transaction has written reach the tables
   at its Commit. *)

Writers == {1}
Decliners == {1}

IdleTx == [pc |-> "idle"]
InProgress(tx) == tx.pc \notin {"idle", "done"}

TxInsertOnPool(table, buffer, rows) == [table |-> table \cup rows, buffer |-> buffer]

\* an INSERT run on the transaction: the rows are the transaction's own until
\* Commit, the table other sessions read is as it was
TxInsert(table, buffer, rows) == [table |-> table, buffer |-> buffer \cup rows]

CommitRowsTorn(table, buffer) == table \cup { r \in buffer : r.id % 2 = 0 }

\* tx.Commit: every row the transaction wrote reaches the table in one step
CommitRows(table, buffer) == table \cup buffer

\* the deferred tx.Rollback after an error return: the transaction is over and
\* what it wrote is discarded
RolledBack(tx, stage) ==
    [tx EXCEPT !.pc = "done", !.status = "error", !.stage = stage,
               !.uncommittedOccs = {}, !.uncommittedParts = {}]

\* the ids the occurrence insert returned to the call
OccIdsOf(tx) == { o.id : o \in tx.occRows }

\* tx = s.db.Begin, now = time.Now, the parsing and the walk
RepeatBegin(w, pid, startTime, timeZone, fault) ==
    /\ repeatTx[w].pc = "idle"
    /\ pid \in DOMAIN prefs
    /\ LET preference == prefs[pid]
           parsed == /\ ParseDaysOfWeek(preference.days_of_week).ok
                     /\ LoadLocation(timeZone).ok
                     /\ ParseRFC3339(startTime).ok
           days   == ParseDaysOfWeek(preference.days_of_week).days
           panics == parsed /\ DividesByZero(preference) /\ WeekdayDays(days, now, Local) # {}
       IN  repeatTx' = [repeatTx EXCEPT ![w] =
               [pc        |-> IF parsed /\ ~panics THEN "walked" ELSE "done",
                status    |-> IF ~parsed THEN "error" ELSE IF panics THEN "panic" ELSE "open",
                stage     |-> IF parsed /\ ~panics THEN "walk" ELSE "begin",
                pref      |-> pid,
                startTime |-> startTime,
                timeZone  |-> timeZone,
                fault     |-> fault,
                at        |-> now,
                kept      |-> IF parsed /\ ~panics
                              THEN KeptDays(preference, days, now, Local) ELSE {},
                occRows   |-> {},     \* rows the call has inserted so far
                users     |-> {},
                partRows  |-> {},
                uncommittedOccs  |-> {},    \* rows the store holds for the transaction
                uncommittedParts |-> {}]]
    /\ declineTx' = [d \in Decliners |->
                       IF InProgress(declineTx[d])
                       THEN [declineTx[d] EXCEPT !.overlap = @ \cup {w}]
                       ELSE declineTx[d]]
    /\ UNCHANGED <<now, srvZone, activities, prefs, roster, occs, parts, occSeq, partSeq,
                   last, prev, pre, nOps, view, multipleCall, mutex, lockedCall>>

\* the batch INSERT INTO scheduled_activities ... RETURNING id, skipped when
\* the walk collected nothing
RepeatInsertOccurrences(w) ==
    /\ repeatTx[w].pc = "walked"
    /\ LET tx   == repeatTx[w]
           rows == OccurrenceRows(prefs[tx.pref], tx.kept, LocalDay(tx.at, Local),
                                  ParseRFC3339(tx.startTime).tod,
                                  LoadLocation(tx.timeZone).loc, occSeq)
       IN  IF tx.kept # {} /\ tx.fault = "occInsert"
           THEN /\ repeatTx' = [repeatTx EXCEPT ![w] = RolledBack(tx, "occInsert")]
                /\ UNCHANGED <<occs, occSeq>>
           ELSE \E ins \in {TxInsert(occs, tx.uncommittedOccs, rows)} :
                    /\ occs' = ins.table
                    /\ occSeq' = occSeq + Cardinality(rows)
                    /\ repeatTx' = [repeatTx EXCEPT ![w] =
                           [tx EXCEPT !.pc = "occsIn", !.stage = "occInsert",
                                      !.occRows = rows,
                                      !.uncommittedOccs = ins.buffer]]
    /\ UNCHANGED <<now, srvZone, activities, prefs, roster, parts, partSeq,
                   last, prev, pre, nOps, declineTx, view, multipleCall, mutex, lockedCall>>

\* SELECT user_id FROM user_activity_preferences_participants on the transaction
RepeatReadRoster(w) ==
    /\ repeatTx[w].pc = "occsIn"
    /\ LET tx == repeatTx[w]
       IN  repeatTx' = [repeatTx EXCEPT ![w] =
               IF tx.fault = "rosterRead"
               THEN RolledBack(tx, "rosterRead")
               ELSE [tx EXCEPT !.pc = "rosterRead", !.stage = "rosterRead",
                               !.users = RosterOf(roster, tx.pref)]]
    /\ UNCHANGED <<now, srvZone, activities, prefs, roster, occs, parts, occSeq, partSeq,
                   last, prev, pre, nOps, declineTx, view, multipleCall, mutex, lockedCall>>

\* the batch INSERT INTO activity_participants, skipped when there is no
\* occurrence or no roster user
RepeatInsertParticipants(w) ==
    /\ repeatTx[w].pc = "rosterRead"
    /\ LET tx   == repeatTx[w]
           rows == ParticipantRows(OccIdsOf(tx), tx.users, partSeq)
       IN  IF rows # {} /\ tx.fault = "partInsert"
           THEN /\ repeatTx' = [repeatTx EXCEPT ![w] = RolledBack(tx, "partInsert")]
                /\ UNCHANGED <<parts, partSeq>>
           ELSE \E ins \in {TxInsert(parts, tx.uncommittedParts, rows)} :
                    /\ parts' = ins.table
                    /\ partSeq' = partSeq + Cardinality(rows)
                    /\ repeatTx' = [repeatTx EXCEPT ![w] =
                           [tx EXCEPT !.pc = "partsIn", !.stage = "partInsert",
                                      !.partRows = rows,
                                      !.uncommittedParts = ins.buffer]]
    /\ UNCHANGED <<now, srvZone, activities, prefs, roster, occs, occSeq,
                   last, prev, pre, nOps, declineTx, view, multipleCall, mutex, lockedCall>>

\* tx.Commit and the return
RepeatCommit(w) ==
    /\ repeatTx[w].pc = "partsIn"
    /\ LET tx == repeatTx[w]
       IN  IF tx.fault = "commit"
           THEN /\ repeatTx' = [repeatTx EXCEPT ![w] = RolledBack(tx, "commit")]
                /\ UNCHANGED <<occs, parts>>
           ELSE /\ occs' = CommitRows(occs, tx.uncommittedOccs)
                /\ parts' = CommitRows(parts, tx.uncommittedParts)
                /\ repeatTx' = [repeatTx EXCEPT ![w] =
                       [tx EXCEPT !.pc = "done", !.status = "ok", !.stage = "done",
                                  !.uncommittedOccs = {}, !.uncommittedParts = {}]]
    /\ UNCHANGED <<now, srvZone, activities, prefs, roster, occSeq, partSeq,
                   last, prev, pre, nOps, declineTx, view, multipleCall, mutex, lockedCall>>

\* tx = s.db.Begin: NOW() of the transaction's statements is this instant
DeclineBegin(d, userID, scheduledActivityID) ==
    /\ declineTx[d].pc = "idle"
    /\ declineTx' = [declineTx EXCEPT ![d] =
           [pc      |-> "begun",
            status  |-> "open",
            user    |-> userID,
            occ     |-> scheduledActivityID,
            at      |-> now,
            pref    |-> NoPref,
            deleted |-> {},
            overlap |-> { w \in Writers : InProgress(repeatTx[w]) }]]
    /\ UNCHANGED <<now, srvZone, activities, prefs, roster, occs, parts, occSeq, partSeq,
                   last, prev, pre, nOps, repeatTx, view, multipleCall, mutex, lockedCall>>

\* SELECT user_activity_preference_id FROM scheduled_activities WHERE id = $1
DeclineSelect(d) ==
    /\ declineTx[d].pc = "begun"
    /\ LET tx    == declineTx[d]
           owner == OwningPreference(occs, tx.occ)
       IN  declineTx' = [declineTx EXCEPT ![d] =
               IF owner.ok
               THEN [tx EXCEPT !.pc = "selected", !.pref = owner.pref]
               ELSE [tx EXCEPT !.pc = "done", !.status = "error"]]
    /\ UNCHANGED <<now, srvZone, activities, prefs, roster, occs, parts, occSeq, partSeq,
                   last, prev, pre, nOps, repeatTx, view, multipleCall, mutex, lockedCall>>

\* the DELETE, one statement on the rows committed when it starts
DeclineDelete(d) ==
    /\ declineTx[d].pc = "selected"
    /\ LET tx == declineTx[d]
       IN  declineTx' = [declineTx EXCEPT ![d] =
               [tx EXCEPT !.pc = "deleted",
                          !.deleted = DeclinedRows(occs, parts, tx.user, tx.pref, tx.at)]]
    /\ UNCHANGED <<now, srvZone, activities, prefs, roster, occs, parts, occSeq, partSeq,
                   last, prev, pre, nOps, repeatTx, view, multipleCall, mutex, lockedCall>>

\* tx.Commit and the return
DeclineCommit(d) ==
    /\ declineTx[d].pc = "deleted"
    /\ parts' = parts \ declineTx[d].deleted
    /\ declineTx' = [declineTx EXCEPT ![d] = [@ EXCEPT !.pc = "done", !.status = "ok"]]
    /\ UNCHANGED <<now, srvZone, activities, prefs, roster, occs, occSeq, partSeq,
                   last, prev, pre, nOps, repeatTx, view, multipleCall, mutex, lockedCall>>

\* participations that committed declines have deleted
Declined == UNION { declineTx[d].deleted :
                      d \in { e \in Decliners : declineTx[e].pc = "done"
                                                  /\ declineTx[e].status = "ok" } }

\* what each read statement returns from given tables
ReadRows(occRows, ids) == { o \in occRows : o.id \in ids }
GetActivitiesByUserIDRows(partRows, userID) == { p \in partRows : p.user_id = userID }
GetParticipantsByScheduledActivityIDRows(partRows, ids) == { p \in partRows : p.occ \in ids }

Returned(reader, arg, occRows, partRows) ==
    CASE reader = "ReadAll" -> [occs |-> occRows, parts |-> {}]
      [] reader = "Read" -> [occs |-> ReadRows(occRows, arg), parts |-> {}]
      [] reader = "checkIfUserIsAvailable" ->
             [occs |-> OccurrencesOnDate(occRows, FromLocal(arg[1], 0, ZoneTable[arg[2]]),
                                         ZoneTable[arg[2]], Local),
              parts |-> {}]
      [] reader = "ParticipantReadAll" -> [occs |-> {}, parts |-> partRows]
      [] reader = "GetActivitiesByUserID" ->
             [occs |-> {}, parts |-> GetActivitiesByUserIDRows(partRows, arg)]
      [] reader = "GetParticipantsByScheduledActivityID" ->
             [occs |-> {}, parts |-> GetParticipantsByScheduledActivityIDRows(partRows, arg)]

\* a read statement: its rows, and beside them the state of the writers and
\* the participations declined when it ran
Observe(reader, arg) ==
    /\ view' = [reader   |-> reader,
                arg      |-> arg,
                rows     |-> Returned(reader, arg, occs, parts),
                writers  |-> [w \in Writers |-> [pc |-> repeatTx[w].pc,
                                                 ok |-> /\ repeatTx[w].pc = "done"
                                                        /\ repeatTx[w].status = "ok"]],
                declined |-> Declined]
    /\ UNCHANGED <<now, srvZone, activities, prefs, roster, occs, parts, occSeq, partSeq,
                   last, prev, pre, nOps, repeatTx, declineTx, multipleCall, mutex, lockedCall>>

ReadAll == Observe("ReadAll", {})
Read(ids) == Observe("Read", ids)
ConflictCheck(day, timeZone) == Observe("checkIfUserIsAvailable", <<day, timeZone>>)
ParticipantReadAll == Observe("ParticipantReadAll", {})
GetActivitiesByUserID(userID) == Observe("GetActivitiesByUserID", userID)
GetParticipantsByScheduledActivityID(ids) == Observe("GetParticipantsByScheduledActivityID", ids)

\* CreateMultiple statement by statement.  The invocation holds no lock and
\* no transaction of its own: the availability query of a round and the
\* INSERT of Create are two statements on the pool, and the mutex of the
\* service is held only for the INSERT.

Callers == {1, 2}

\* the call parses its times and its zone and enters the loop
MultipleBegin(c, activityID, selectedDates, startTime, endTime, timeZone) ==
    /\ multipleCall[c].pc = "idle"
    /\ multipleCall' = [multipleCall EXCEPT ![c] =
          [pc        |-> IF ~ParseRFC3339(startTime).ok \/ ~ParseRFC3339(endTime).ok
                            \/ ~LoadLocation(timeZone).ok \/ selectedDates = <<>>
                         THEN "done" ELSE "loop",
           status    |-> IF ~ParseRFC3339(startTime).ok \/ ~ParseRFC3339(endTime).ok
                            \/ ~LoadLocation(timeZone).ok
                         THEN "error" ELSE "ok",
           activity  |-> activityID,
           dates     |-> selectedDates,
           startTime |-> startTime,
           endTime   |-> endTime,
           timeZone  |-> timeZone,
           scheduledAt |-> 0,
           created   |-> {}]]
    /\ UNCHANGED <<now, srvZone, activities, prefs, roster, occs, parts, occSeq, partSeq,
                   last, prev, pre, nOps, repeatTx, declineTx, view, mutex, lockedCall>>

\* one round up to the availability query: the date is parsed, a past date
\* is skipped, the query runs on the rows committed at this moment
MultipleCheck(c) ==
    /\ multipleCall[c].pc = "loop"
    /\ LET call    == multipleCall[c]
           dateStr == Head(call.dates)
           loc     == LoadLocation(call.timeZone).loc
           date    == FromLocal(dateStr.day, 0, loc)
           startTod == ParseRFC3339(call.startTime).tod
           endTod   == ParseRFC3339(call.endTime).tod
           scheduledAt == FromLocal(LocalDay(date, loc), startTod, loc)
           check   == checkIfUserIsAvailable(scheduledAt, startTod, endTod, loc, Local,
                                             occs, activities)
           Skipped == [call EXCEPT !.dates = Tail(@),
                                   !.pc = IF Tail(call.dates) = <<>> THEN "done" ELSE "loop"]
       IN  multipleCall' = [multipleCall EXCEPT ![c] =
             IF ~dateStr.valid THEN [call EXCEPT !.pc = "done", !.status = "error"]
             ELSE IF date < now THEN Skipped
             ELSE IF ~check.ok THEN [call EXCEPT !.pc = "done", !.status = "error"]
             ELSE IF ~check.available THEN Skipped
             ELSE [call EXCEPT !.pc = "checked", !.scheduledAt = scheduledAt]]
    /\ UNCHANGED <<now, srvZone, activities, prefs, roster, occs, parts, occSeq, partSeq,
                   last, prev, pre, nOps, repeatTx, declineTx, view, mutex, lockedCall>>

\* the Create of the round: the INSERT, under the mutex of the service
MultipleCreate(c) ==
    /\ multipleCall[c].pc = "checked"
    /\ LET call == multipleCall[c]
           plan == CreatePlan(occs, occSeq, activities, prefs,
                              [activity_id |-> call.activity, is_active |-> TRUE,
                               scheduled_at |-> call.scheduledAt, pref |-> NoPref])
       IN  /\ occs' = plan.occs
           /\ occSeq' = plan.seq
           /\ multipleCall' = [multipleCall EXCEPT ![c] =
                 IF ~plan.ok THEN [call EXCEPT !.pc = "done", !.status = "error"]
                 ELSE [call EXCEPT !.dates = Tail(@),
                                   !.created = @ \cup (plan.occs \ occs),
                                   !.pc = IF Tail(call.dates) = <<>> THEN "done" ELSE "loop"]]
    /\ UNCHANGED <<now, srvZone, activities, prefs, roster, parts, partSeq,
                   last, prev, pre, nOps, repeatTx, declineTx, view, mutex, lockedCall>>

\* The variant of the service in which CreateRepeatingScheduledActivity takes
\* the mutex of the service and creates each occurrence through Create of the
\* service registered under "scheduled_activities", which main registers as
\* the same instance.  sync.Mutex is not reentrant: Lock blocks until the
\* mutex is unlocked, whoever holds it.

Goroutines == {1, 2}
Unlocked == 0

\* a single-occurrence request arrives at Create
LockedCreateBegin(g, scheduledActivity) ==
    /\ lockedCall[g].pc = "idle"
    /\ lockedCall' = [lockedCall EXCEPT ![g] =
          [pc |-> "create", kind |-> "create", status |-> "ok", pref |-> NoPref,
           body |-> scheduledActivity, remaining |-> {}, day0 |-> 0, tod |-> 0,
           timeZone |-> "UTC", created |-> {}]]
    /\ UNCHANGED <<now, srvZone, activities, prefs, roster, occs, parts, occSeq, partSeq,
                   last, prev, pre, nOps, repeatTx, declineTx, view, multipleCall, mutex>>

\* CreateRepeatingScheduledActivity up to its first call of Create: s.Lock(),
\* Begin, the weekday list, the walk to the first qualifying day, the zone
\* and the start time parsed for that day.  Every return and the panic of a
\* zero frequency run the deferred Unlock.
LockedRepeatBegin(g, pid, startTime, timeZone) ==
    /\ lockedCall[g].pc = "idle"
    /\ mutex = Unlocked
    /\ LET preference == prefs[pid]
           parsed == ParseDaysOfWeek(preference.days_of_week)
           zone   == Local
           candidates == WeekdayDays(parsed.days, now, zone)
           panics == parsed.ok /\ DividesByZero(preference) /\ candidates # {}
           kept   == IF parsed.ok /\ ~panics
                     THEN KeptDays(preference, parsed.days, now, zone) ELSE {}
           failed == \/ ~parsed.ok
                     \/ kept # {} /\ (~LoadLocation(timeZone).ok \/ ~ParseRFC3339(startTime).ok)
           returns == failed \/ panics
       IN  /\ lockedCall' = [lockedCall EXCEPT ![g] =
                 [pc |-> IF returns THEN "done" ELSE IF kept = {} THEN "finish" ELSE "create",
                  kind |-> "repeat",
                  status |-> IF panics THEN "panic" ELSE IF failed THEN "error" ELSE "ok",
                  pref |-> pid,
                  body |-> [activity_id |-> preference.activity_id, is_active |-> TRUE,
                            scheduled_at |-> 0, pref |-> pid],
                  remaining |-> IF returns THEN {} ELSE kept,
                  day0 |-> LocalDay(now, zone),
                  tod |-> ParseRFC3339(startTime).tod,
                  timeZone |-> timeZone,
                  created |-> {}]]
           /\ mutex' = IF returns THEN Unlocked ELSE g
    /\ UNCHANGED <<now, srvZone, activities, prefs, roster, occs, parts, occSeq, partSeq,
                   last, prev, pre, nOps, repeatTx, declineTx, view, multipleCall>>

\* Create: service.Lock(), the INSERT, the deferred Unlock.  The goroutine
\* waits while the mutex is locked.  A series call takes its next qualifying
\* day; an insert that fails ends it with an error and unlocks its mutex.
LockedCreate(g) ==
    /\ lockedCall[g].pc = "create"
    /\ mutex = Unlocked
    /\ LET call == lockedCall[g]
           d    == CHOOSE x \in call.remaining : \A y \in call.remaining : x <= y
           body == IF call.kind = "repeat"
                   THEN [call.body EXCEPT !.scheduled_at =
                            ScheduledAt(d, call.day0, call.tod, ZoneTable[call.timeZone])]
                   ELSE call.body
           plan == CreatePlan(occs, occSeq, activities, prefs, body)
           rest == IF call.kind = "repeat" THEN call.remaining \ {d} ELSE {}
       IN  /\ occs' = plan.occs
           /\ occSeq' = plan.seq
           /\ lockedCall' = [lockedCall EXCEPT ![g] =
                 IF ~plan.ok THEN [call EXCEPT !.pc = "done", !.status = "error"]
                 ELSE [call EXCEPT !.created = @ \cup (plan.occs \ occs),
                                   !.remaining = rest,
                                   !.pc = IF call.kind = "create" THEN "done"
                                          ELSE IF rest = {} THEN "finish" ELSE "create"]]
           /\ mutex' = Unlocked
    /\ UNCHANGED <<now, srvZone, activities, prefs, roster, parts, partSeq,
                   last, prev, pre, nOps, repeatTx, declineTx, view, multipleCall>>

\* the rest of the series call: the roster is read, one participation per
\* created occurrence and member is created through the participation
\* service, the transaction commits, the deferred Unlock runs
LockedRepeatFinish(g) ==
    /\ lockedCall[g].pc = "finish"
    /\ LET call == lockedCall[g]
           rows == ParticipantRows({o.id : o \in call.created}, RosterOf(roster, call.pref), partSeq)
       IN  /\ parts' = parts \cup rows
           /\ partSeq' = partSeq + Cardinality(rows)
           /\ lockedCall' = [lockedCall EXCEPT ![g] = [call EXCEPT !.pc = "done"]]
    /\ mutex' = Unlocked
    /\ UNCHANGED <<now, srvZone, activities, prefs, roster, occs, occSeq,
                   last, prev, pre, nOps, repeatTx, declineTx, view, multipleCall>>

NoView == [reader |-> "none"]

NoStatements ==
    /\ repeatTx = [w \in Writers |-> IdleTx]
    /\ declineTx = [d \in Decliners |-> IdleTx]
    /\ view = NoView
    /\ multipleCall = [c \in Callers |-> IdleTx]
    /\ mutex = Unlocked
    /\ lockedCall = [g \in Goroutines |-> IdleTx]

----------------------------------------------------------------------------
(* Specification of the series calls, one after the other.  The store starts
   empty or holding two ad-hoc occurrences with participations, as Create of
   the two services leaves them. *)

SeedOccs ==
    { [id |-> 1, activity_id |-> 1, is_active |-> TRUE,
       scheduled_at |-> now - MinutesPerDay, pref |-> NoPref],
      [id |-> 2, activity_id |-> 1, is_active |-> TRUE,
       scheduled_at |-> now + 2 * MinutesPerDay, pref |-> NoPref] }

SeedParts ==
    { [id |-> 1, user_id |-> 1, occ |-> 1, invite_status |-> "Accepted"],
      [id |-> 2, user_id |-> 1, occ |-> 2, invite_status |-> "Pending"],
      [id |-> 3, user_id |-> 2, occ |-> 2, invite_status |-> "Rejected"] }

SeriesPrefs ==
    [ p \in {1, 2} |->
        IF p = 1
        THEN [id |-> 1, user_id |-> 1, activity_id |-> 1, frequency |-> 2,
              frequency_period |-> "week", days_of_week |-> <<"1">>]
        ELSE [id |-> 2, user_id |-> 2, activity_id |-> 2, frequency |-> 2,
              frequency_period |-> "month", days_of_week |-> <<"3", "6">>] ]

SeriesRoster == { <<1, 1>>, <<1, 2>>, <<2, 1>> }

\* an earlier series of preference 1, created EarlierDays days before, with one
\* participation accepted since
EarlierDays == 20
EarlierSeries ==
    RepeatPlan(SeriesPrefs[1], [valid |-> TRUE, tod |-> 8 * 60], "UTC", "none",
               now - EarlierDays * MinutesPerDay, Local, 3, 4, SeriesRoster)

SeededOccs == SeedOccs \cup EarlierSeries.newOccs
SeededParts ==
    LET p == CHOOSE q \in EarlierSeries.newParts : q.id + 1 = EarlierSeries.partSeq
    IN  SeedParts \cup
        UpdateParticipantPlan(EarlierSeries.newOccs, EarlierSeries.newParts, p.id,
                              [user_id |-> p.user_id, occ |-> p.occ,
                               invite_status |-> "Accepted"]).parts

\* the occurrences a decline request names: one of each preference and of the
\* ad-hoc ones (the call uses the occurrence only to find its preference), and
\* an id that matches no row
DeclineTargets ==
    { o.id : o \in { r \in occs : ~\E q \in occs : q.pref = r.pref /\ q.id < r.id } }
        \cup {occSeq}

\* the participations an update request names: the latest rows
MaxUpdateBack == 2
UpdateTargets == { p \in parts : p.id + MaxUpdateBack >= partSeq }

Init ==
    /\ srvZone \in DOMAIN ZoneTable
    /\ now = FromLocal(33, 10 * 60, ZoneTable[srvZone])    \* Monday 2025-02-03 10:00
    /\ activities = [a \in {1, 2} |-> IF a = 1 THEN 60 ELSE 90]
    /\ prefs = SeriesPrefs
    /\ roster = SeriesRoster
    /\ \/ occs = {} /\ parts = {} /\ occSeq = 1 /\ partSeq = 1
       \/ /\ occs = SeededOccs /\ parts = SeededParts
          /\ occSeq = EarlierSeries.occSeq /\ partSeq = EarlierSeries.partSeq
    /\ last = [op |-> "none"]
    /\ prev = [op |-> "none"]
    /\ pre = Tables
    /\ nOps = 0
    /\ NoStatements

TickSteps == { 12 * 60, 15 * MinutesPerDay }

Next ==
    \/ \E pid \in DOMAIN prefs, st \in StartTimes, fault \in Faults :
          CreateRepeatingScheduledActivity(pid, st, "UTC", fault)
    \/ \E u \in Users, o \in DeclineTargets : DeclineRepeatedActivity(u, o)
    \/ \E p \in UpdateTargets, st \in {"Accepted", "Rejected"} :
          UpdateParticipant(p.id, [user_id |-> p.user_id, occ |-> p.occ, invite_status |-> st])
    \/ \E m \in TickSteps : Tick(m)

Spec == Init /\ [][Next]_vars

----------------------------------------------------------------------------
(* Specification of the ad-hoc calls on a store that starts empty: batches of
   at most MaxDates dates of the day of the call and the day after, and single
   occurrences that run over midnight *)

MaxAdhocOps == 2
MaxDates == 2

DateStrings == { [valid |-> TRUE, day |-> 33], [valid |-> TRUE, day |-> 34],
                 [valid |-> FALSE, day |-> 0] }

RECURSIVE SeqsUpTo(_, _)
SeqsUpTo(S, n) ==
    IF n = 0 THEN { <<>> }
    ELSE LET shorter == SeqsUpTo(S, n - 1)
         IN  shorter \cup { Append(q, x) : q \in shorter, x \in S }

TimeOfDay(h, m) == [valid |-> TRUE, tod |-> h * 60 + m]

Windows ==
    { <<TimeOfDay(10, 0), TimeOfDay(11, 0)>>,
      <<TimeOfDay(10, 30), TimeOfDay(11, 30)>>,
      <<TimeOfDay(11, 0), TimeOfDay(12, 0)>>,
      <<TimeOfDay(20, 0), TimeOfDay(21, 0)>> }

InitAdhoc ==
    /\ srvZone \in DOMAIN ZoneTable
    /\ now = FromLocal(33, 9 * 60, ZoneTable[srvZone])    \* Monday 2025-02-03 09:00
    /\ activities = [a \in {1, 2} |-> IF a = 1 THEN 60 ELSE 90]
    /\ prefs = SeriesPrefs
    /\ roster = SeriesRoster
    /\ occs = {} /\ parts = {} /\ occSeq = 1 /\ partSeq = 1
    /\ last = [op |-> "none"]
    /\ prev = [op |-> "none"]
    /\ pre = Tables
    /\ nOps = 0
    /\ NoStatements

NextAdhoc ==
    /\ nOps < MaxAdhocOps
    /\ \/ \E a \in DOMAIN activities, dates \in SeqsUpTo(DateStrings, MaxDates),
             w \in Windows, tz \in DOMAIN ZoneTable :
             CreateMultiple(a, dates, w[1], w[2], tz)
       \/ \E a \in DOMAIN activities, tz \in DOMAIN ZoneTable :
             Create([activity_id |-> a, is_active |-> TRUE,
                     scheduled_at |-> FromLocal(33, 23 * 60 + 30, ZoneTable[tz]),
                     pref |-> NoPref])

SpecAdhoc == InitAdhoc /\ [][NextAdhoc]_vars

----------------------------------------------------------------------------
(* Specification of the activity edits: the estimated time of an activity is
   edited beside batches of one date, on a store that holds two occurrences
   created on the day after the call while the activities had their first
   estimated times *)

FirstEstimatedTimes == [a \in {1, 2} |-> IF a = 1 THEN 60 ELSE 90]

EditedOccs ==
    { [id |-> 1, activity_id |-> 1, is_active |-> TRUE,
       scheduled_at |-> FromLocal(34, 10 * 60, Local), pref |-> NoPref],
      [id |-> 2, activity_id |-> 2, is_active |-> TRUE,
       scheduled_at |-> FromLocal(34, 14 * 60, Local), pref |-> NoPref] }

EstimatedTimes ==
    { [valid |-> TRUE, minutes |-> 30], [valid |-> TRUE, minutes |-> 60],
      [valid |-> TRUE, minutes |-> 120], [valid |-> FALSE, minutes |-> 0] }

EditWindows ==
    Windows \cup { <<TimeOfDay(15, 30), TimeOfDay(16, 0)>>, <<TimeOfDay(14, 30), TimeOfDay(15, 0)>> }

InitEdits ==
    /\ srvZone \in DOMAIN ZoneTable
    /\ now = FromLocal(33, 9 * 60, ZoneTable[srvZone])
    /\ activities = FirstEstimatedTimes
    /\ prefs = SeriesPrefs
    /\ roster = SeriesRoster
    /\ occs = EditedOccs /\ parts = {} /\ occSeq = 3 /\ partSeq = 1
    /\ last = [op |-> "none"]
    /\ prev = [op |-> "none"]
    /\ pre = Tables
    /\ nOps = 0
    /\ NoStatements

NextEdits ==
    \/ \E a \in DOMAIN activities \cup {3}, e \in EstimatedTimes : UpdateActivity(a, e)
    \/ \E a \in DOMAIN activities, d \in DateStrings, w \in EditWindows, tz \in DOMAIN ZoneTable :
          CreateMultiple(a, <<d>>, w[1], w[2], tz)

SpecEdits == InitEdits /\ [][NextEdits]_vars

----------------------------------------------------------------------------
(* Specification of the interleavings: one series call and one decline, each
   statement by statement, beside the read statements and the clock.  The
   store holds one earlier occurrence of preference 1 with its participations. *)

EarlierOccs ==
    { [id |-> 1, activity_id |-> 1, is_active |-> TRUE,
       scheduled_at |-> now + 2 * MinutesPerDay, pref |-> 1] }

EarlierParts ==
    { [id |-> 1, user_id |-> 1, occ |-> 1, invite_status |-> "Accepted"],
      [id |-> 2, user_id |-> 2, occ |-> 1, invite_status |-> "Pending"] }

\* occurrences the readers and the decline name: the earlier one and the first
\* the series call inserts
NamedOccs == {1, 2}

\* dates the conflict check asks about: the day after the call and a Monday
\* two weeks later
CheckedDays == {34, 47}

\* the clock moves at most MaxTicks times, by more than two weeks
MaxTicks == 1
LongWait == 15 * MinutesPerDay

InitStmts ==
    /\ srvZone = "America/Toronto"
    /\ now = FromLocal(33, 10 * 60, ZoneTable[srvZone])    \* Monday 2025-02-03 10:00
    /\ activities = [a \in {1, 2} |-> IF a = 1 THEN 60 ELSE 90]
    /\ prefs = SeriesPrefs
    /\ roster = SeriesRoster
    /\ occs = EarlierOccs /\ parts = EarlierParts /\ occSeq = 2 /\ partSeq = 3
    /\ last = [op |-> "none"]
    /\ prev = [op |-> "none"]
    /\ pre = Tables
    /\ nOps = 0
    /\ NoStatements

NextStmts ==
    \/ \E w \in Writers, pid \in DOMAIN prefs, fault \in Faults :
           RepeatBegin(w, pid, TimeOfDay(8, 0), "UTC", fault)
    \/ \E w \in Writers : RepeatInsertOccurrences(w)
    \/ \E w \in Writers : RepeatReadRoster(w)
    \/ \E w \in Writers : RepeatInsertParticipants(w)
    \/ \E w \in Writers : RepeatCommit(w)
    \/ \E d \in Decliners, u \in Users, o \in NamedOccs : DeclineBegin(d, u, o)
    \/ \E d \in Decliners : DeclineSelect(d)
    \/ \E d \in Decliners : DeclineDelete(d)
    \/ \E d \in Decliners : DeclineCommit(d)
    \/ ReadAll
    \/ Read(NamedOccs)
    \/ \E day \in CheckedDays : ConflictCheck(day, "UTC")
    \/ ParticipantReadAll
    \/ \E u \in Users : GetActivitiesByUserID(u)
    \/ GetParticipantsByScheduledActivityID(NamedOccs)
    \/ nOps < MaxTicks /\ Tick(LongWait)

SpecStmts == InitStmts /\ [][NextStmts]_vars

----------------------------------------------------------------------------
(* Specification of the recurrence: one call on an empty store, the preference,
   the call instant and the host zone drawn from bounded sets *)

MaxFrequency == 3
RecurStartDays == {33, 151, 242}     \* 2025-02-03 (Monday), 2025-06-01, 2025-08-31
RecurDays == { <<"1">>, <<"0">>, <<"1", "4">>, <<"3", "6", "0">> }
RecurStartTimes == { [valid |-> TRUE, tod |-> 8 * 60], [valid |-> TRUE, tod |-> 18 * 60] }

InitRecur ==
    /\ srvZone \in DOMAIN ZoneTable
    /\ now \in { FromLocal(day, 10 * 60, ZoneTable[srvZone]) : day \in RecurStartDays }
    /\ activities = [a \in {1} |-> 60]
    /\ \E n \in 1..MaxFrequency, per \in {"week", "month"}, days \in RecurDays :
          prefs = [p \in {1} |-> [id |-> 1, user_id |-> 1, activity_id |-> 1, frequency |-> n,
                                  frequency_period |-> per, days_of_week |-> days]]
    /\ roster = { <<1, u>> : u \in Users }
    /\ occs = {} /\ parts = {}
    /\ occSeq = 1 /\ partSeq = 1
    /\ last = [op |-> "none"]
    /\ prev = [op |-> "none"]
    /\ pre = Tables
    /\ nOps = MaxOps - 1
    /\ NoStatements

NextRecur ==
    \E st \in RecurStartTimes, tz \in DOMAIN ZoneTable :
        CreateRepeatingScheduledActivity(1, st, tz, "none")

SpecRecur == InitRecur /\ [][NextRecur]_vars

----------------------------------------------------------------------------
(* Specification of the request checks: one call on a store that holds two
   ad-hoc occurrences, for a preference whose frequency and weekday list are
   whatever the preference table accepts (the columns carry no CHECK), with a
   start time and a zone name that parse or do not *)

StoredFrequencies == {0 - 2, 0 - 1, 0, 1, 2}
StoredDaysOfWeek == { <<"">>, <<"x">>, <<"1", "x">>, <<"7">>, <<"-1">>, <<"1", "9">>, <<"1">>, <<"3", "6">> }
RequestStartTimes == { [valid |-> TRUE, tod |-> 8 * 60], [valid |-> FALSE, tod |-> 0] }
RequestTimeZones == DOMAIN ZoneTable \cup {"Mars/Olympus"}

InitRequests ==
    /\ srvZone \in DOMAIN ZoneTable
    /\ now = FromLocal(33, 10 * 60, ZoneTable[srvZone])
    /\ activities = [a \in {1} |-> 60]
    /\ \E n \in StoredFrequencies, per \in {"week", "month"}, days \in StoredDaysOfWeek :
          prefs = [p \in {1} |-> [id |-> 1, user_id |-> 1, activity_id |-> 1, frequency |-> n,
                                  frequency_period |-> per, days_of_week |-> days]]
    /\ roster = { <<1, u>> : u \in Users }
    /\ occs = SeedOccs /\ parts = SeedParts
    /\ occSeq = 3 /\ partSeq = 4
    /\ last = [op |-> "none"]
    /\ prev = [op |-> "none"]
    /\ pre = Tables
    /\ nOps = MaxOps - 1
    /\ NoStatements

NextRequests ==
    \E st \in RequestStartTimes, tz \in RequestTimeZones :
        CreateRepeatingScheduledActivity(1, st, tz, "none")

SpecRequests == InitRequests /\ [][NextRequests]_vars

----------------------------------------------------------------------------
(* Specification of the participation table: participations created, updated
   and retargeted one at a time, beside a short series, declines and deletions
   of occurrences, on a store that holds two ad-hoc occurrences *)

ShortSeriesPrefs ==
    [ p \in {1} |-> [id |-> 1, user_id |-> 1, activity_id |-> 1, frequency |-> 6,
                     frequency_period |-> "month", days_of_week |-> <<"1">>] ]

\* the values of invite_status a request body carries: the three of the
\* column's comment and one that is none of them
RequestedStatuses == {"Pending", "Accepted", "Rejected", "Maybe"}

\* the occurrence ids a request names: the two oldest and the latest the
\* sequence has given out, whether or not the row is still there, and the id
\* the sequence gives next, which matches no row
NamedOccIds == { i \in 1..occSeq : i <= 2 \/ i + 1 >= occSeq }

\* the participations a request names: the latest rows and an id that
\* matches no row
NamedPartIds == { p.id : p \in UpdateTargets } \cup {partSeq}

InitParticipants ==
    /\ srvZone \in DOMAIN ZoneTable
    /\ now = FromLocal(33, 10 * 60, ZoneTable[srvZone])
    /\ activities = [a \in {1} |-> 60]
    /\ prefs = ShortSeriesPrefs
    /\ roster = { <<1, u>> : u \in Users }
    /\ occs = SeedOccs /\ parts = SeedParts
    /\ occSeq = 3 /\ partSeq = 4
    /\ last = [op |-> "none"]
    /\ prev = [op |-> "none"]
    /\ pre = Tables
    /\ nOps = 0
    /\ NoStatements

NextParticipants ==
    \/ \E u \in Users, o \in NamedOccIds :
          CreateParticipant([user_id |-> u, occ |-> o, invite_status |-> "Accepted"])
    \/ \E id \in NamedPartIds, u \in Users, o \in NamedOccIds, st \in RequestedStatuses :
          UpdateParticipant(id, [user_id |-> u, occ |-> o, invite_status |-> st])
    \/ CreateRepeatingScheduledActivity(1, [valid |-> TRUE, tod |-> 8 * 60], "UTC", "none")
    \/ \E u \in Users, o \in NamedOccIds : DeclineRepeatedActivity(u, o)
    \/ \E id \in NamedOccIds : Delete(id)

SpecParticipants == InitParticipants /\ [][NextParticipants]_vars

----------------------------------------------------------------------------
(* Specification of the single-occurrence calls: Update and Delete by id on a
   store that holds two ad-hoc occurrences with their participations and the
   occurrences of an earlier series *)

\* the bodies of an Update request: activities and preferences that exist
\* and that do not, the flag cleared, a start a month ahead
UpdateBodies ==
    [ activity_id  : {2, 3},
      is_active    : {FALSE},
      scheduled_at : { now + 30 * MinutesPerDay },
      pref         : {NoPref, 1, 3} ]

\* the ids a request names: the first rows, the latest, and one that
\* matches no row
NamedOccurrenceIds == { i \in 1..occSeq : i <= 3 \/ i + 1 >= occSeq }

InitOccurrences ==
    /\ srvZone \in DOMAIN ZoneTable
    /\ now = FromLocal(33, 10 * 60, ZoneTable[srvZone])
    /\ activities = [a \in {1, 2} |-> IF a = 1 THEN 60 ELSE 90]
    /\ prefs = SeriesPrefs
    /\ roster = SeriesRoster
    /\ occs = SeededOccs /\ parts = SeededParts
    /\ occSeq = EarlierSeries.occSeq /\ partSeq = EarlierSeries.partSeq
    /\ last = [op |-> "none"]
    /\ prev = [op |-> "none"]
    /\ pre = Tables
    /\ nOps = 0
    /\ NoStatements

NextOccurrences ==
    \/ \E id \in NamedOccurrenceIds, body \in UpdateBodies : Update(id, body)
    \/ \E id \in NamedOccurrenceIds : Delete(id)

SpecOccurrences == InitOccurrences /\ [][NextOccurrences]_vars

----------------------------------------------------------------------------
(* Specification of the HTTP requests: series, decline and batch requests
   with well-formed and malformed fields, on a store that holds two ad-hoc
   occurrences and the occurrences of an earlier series of preference 1 *)

\* preference 2 carries a weekday list that does not parse
RequestPrefs == [SeriesPrefs EXCEPT ![2].days_of_week = <<"x">>]

\* preference ids of a request: two rows, an id that matches no row, and a
\* string that is no integer
RequestPreferenceIDs == {"1", "2", "9", "x"}

\* occurrence ids of a decline request: an ad-hoc occurrence, the first
\* occurrence of the earlier series, an id that matches no row, no integer
RequestOccurrenceIDs == {"1", "3", "0", "x"}

RequestUserIDs == {"1", "x"}

RequestWindows ==
    { <<TimeOfDay(10, 0), TimeOfDay(11, 0)>>,
      <<[valid |-> FALSE, tod |-> 0], TimeOfDay(11, 0)>>,
      <<TimeOfDay(10, 0), [valid |-> FALSE, tod |-> 0]>> }

InitHTTP ==
    /\ srvZone \in DOMAIN ZoneTable
    /\ now = FromLocal(33, 10 * 60, ZoneTable[srvZone])
    /\ activities = [a \in {1, 2} |-> IF a = 1 THEN 60 ELSE 90]
    /\ prefs = RequestPrefs
    /\ roster = SeriesRoster
    /\ occs = SeededOccs /\ parts = SeededParts
    /\ occSeq = EarlierSeries.occSeq /\ partSeq = EarlierSeries.partSeq
    /\ last = [op |-> "none"]
    /\ prev = [op |-> "none"]
    /\ pre = Tables
    /\ nOps = 0
    /\ NoStatements

NextHTTP ==
    \/ \E pid \in RequestPreferenceIDs, st \in RequestStartTimes, tz \in RequestTimeZones :
          HandleHTTPPostRepeatScheduledActivity(pid, st, tz)
    \/ \E u \in RequestUserIDs, o \in RequestOccurrenceIDs :
          HandleHTTPPostDeclineRepeatedActivity(u, o)
    \/ \E d \in DateStrings, w \in RequestWindows, tz \in RequestTimeZones :
          HandleHTTPPostMultiple(1, <<d>>, w[1], w[2], tz)

SpecHTTP == InitHTTP /\ [][NextHTTP]_vars

----------------------------------------------------------------------------
(* Specification of the concurrent batches: two CreateMultiple invocations
   for the same activity, statement by statement, on a store that starts
   empty; host and request zone are UTC, the dates are the two days after
   the call *)

BatchDates == { [valid |-> TRUE, day |-> 34], [valid |-> TRUE, day |-> 35] }

BatchWindows ==
    { <<TimeOfDay(10, 0), TimeOfDay(11, 0)>>,
      <<TimeOfDay(10, 30), TimeOfDay(11, 30)>>,
      <<TimeOfDay(11, 0), TimeOfDay(12, 0)>> }

InitBatches ==
    /\ srvZone = "UTC"
    /\ now = FromLocal(33, 9 * 60, ZoneTable[srvZone])
    /\ activities = [a \in {1} |-> 60]
    /\ prefs = SeriesPrefs
    /\ roster = SeriesRoster
    /\ occs = {} /\ parts = {} /\ occSeq = 1 /\ partSeq = 1
    /\ last = [op |-> "none"]
    /\ prev = [op |-> "none"]
    /\ pre = Tables
    /\ nOps = 0
    /\ NoStatements

NextBatches ==
    \/ \E c \in Callers, dates \in SeqsUpTo(BatchDates, MaxDates) \ {<<>>}, w \in BatchWindows :
          MultipleBegin(c, 1, dates, w[1], w[2], "UTC")
    \/ \E c \in Callers : MultipleCheck(c)
    \/ \E c \in Callers : MultipleCreate(c)

SpecBatches == InitBatches /\ [][NextBatches]_vars

----------------------------------------------------------------------------
(* Claims about the series calls *)

LastPreference == prefs[last.pref]
LastLoc == ZoneTable[last.timeZone]
LastWeekdays ==
    LET days == ParseDaysOfWeek(LastPreference.days_of_week).days
    IN  { days[i] : i \in 1..Len(days) }

CreatedOccs == occs \ pre.occs
CreatedParts == parts \ pre.parts

\* C1: a CreateRepeatingScheduledActivity that fails at the roster read, at
\* the participation insert or at the commit returns an error and leaves the
\* occurrence and participation tables exactly as they were before the call.
C1_FailedSeriesLeavesNothing ==
    (last.op = "repeat" /\ last.stage \in {"rosterRead", "partInsert", "commit"}) =>
        /\ last.status = "error"
        /\ last.result = {}
        /\ occs = pre.occs
        /\ parts = pre.parts

\* a failure of the participation insert after occurrence rows were inserted,
\* on a store that already held rows
C1_Witness ==
    /\ last.op = "repeat"
    /\ last.stage = "partInsert"
    /\ last.inserted # {}
    /\ pre.occs # {}
    /\ pre.parts # {}

\* C2: a successful DeclineRepeatedActivity(u, o), o an occurrence of
\* preference P, removes exactly the participations of u on occurrences of P
\* that start at or after now, whatever their status; the participations of
\* other users, of u on earlier occurrences of P, of u on occurrences of other
\* preferences and of u on ad-hoc occurrences stay, and the occurrence table
\* is unchanged.
C2_DeclineRemovesOnlyFutureOfSeries ==
    (last.op = "decline" /\ last.status = "ok") =>
        LET P == (CHOOSE o \in pre.occs : o.id = last.occ).pref
            OccOf(p) == CHOOSE o \in pre.occs : o.id = p.occ
        IN  /\ P # NoPref
            /\ occs = pre.occs
            /\ parts \subseteq pre.parts
            /\ \A p \in pre.parts :
                  p \in parts <=>
                     \/ p.user_id # last.user
                     \/ OccOf(p).pref # P
                     \/ OccOf(p).scheduled_at < last.at

\* a decline that removed a participation that was not Pending, and kept one
\* of the other user on the series, one of the same user on an earlier
\* occurrence of the series, and one of the same user on a later ad-hoc occurrence
C2_Witness ==
    /\ last.op = "decline"
    /\ last.status = "ok"
    /\ \E p \in pre.parts \ parts : p.invite_status # "Pending"
    /\ \E p \in parts, o \in occs :
          o.id = p.occ /\ p.user_id # last.user /\ o.pref = 1 /\ o.scheduled_at >= last.at
    /\ \E p \in parts, o \in occs, q \in occs :
          /\ q.id = last.occ /\ o.id = p.occ
          /\ p.user_id = last.user /\ o.pref = q.pref /\ o.scheduled_at < last.at
    /\ \E p \in parts, o \in occs :
          o.id = p.occ /\ p.user_id = last.user /\ o.pref = NoPref /\ o.scheduled_at >= last.at

\* C3: a successful CreateRepeatingScheduledActivity for preference P with
\* roster R creates exactly one occurrence per kept day, each with P's
\* activity, active, and tagged with P's id, and exactly one Pending
\* participation per created occurrence and member of R: no other row is
\* created, and none is removed.
C3_SeriesRowsAndFanOut ==
    (last.op = "repeat" /\ last.status = "ok") =>
        LET P      == LastPreference
            R      == { r[2] : r \in { q \in roster : q[1] = P.id } }
            day0   == LocalDay(last.at, Local)
            kept   == KeptDays(P, ParseDaysOfWeek(P.days_of_week).days, last.at, Local)
            ids    == { o.id : o \in CreatedOccs }
        IN  /\ pre.occs \subseteq occs
            /\ pre.parts \subseteq parts
            /\ Cardinality(CreatedOccs) = Cardinality(kept)
            /\ \A d \in kept :
                  Cardinality({ o \in CreatedOccs :
                      o.scheduled_at = FromLocal(day0 + d, last.startTime.tod, LastLoc) }) = 1
            /\ \A o \in CreatedOccs :
                  o.activity_id = P.activity_id /\ o.is_active /\ o.pref = P.id
            /\ Cardinality(ids) = Cardinality(CreatedOccs)
            /\ last.result = ids
            /\ Cardinality(CreatedParts) = Cardinality(CreatedOccs) * Cardinality(R)
            /\ \A p \in CreatedParts :
                  p.user_id \in R /\ p.occ \in ids /\ p.invite_status = "Pending"
            /\ \A i \in ids, u \in R :
                  Cardinality({ p \in parts : p.occ = i /\ p.user_id = u }) = 1
            /\ Cardinality({ p.id : p \in parts }) = Cardinality(parts)

\* a series of several occurrences for a roster of two, added to a store that
\* already holds the series of another preference
C3_Witness ==
    /\ last.op = "repeat"
    /\ last.status = "ok"
    /\ last.pref = 1
    /\ Cardinality(CreatedOccs) > 2
    /\ Cardinality(CreatedParts) = 2 * Cardinality(CreatedOccs)
    /\ \E o \in pre.occs : o.pref = 2

\* C7: a second DeclineRepeatedActivity with the same user and occurrence,
\* right after a successful first one, returns no error and leaves both
\* tables as the first call left them.
C7_DeclineIdempotent ==
    ( /\ last.op = "decline" /\ prev.op = "decline"
      /\ prev.status = "ok"
      /\ last.user = prev.user /\ last.occ = prev.occ ) =>
        /\ last.status = "ok"
        /\ last.deleted = 0
        /\ occs = pre.occs
        /\ parts = pre.parts

\* a repeated decline whose first call removed participations
C7_Witness ==
    /\ last.op = "decline" /\ prev.op = "decline"
    /\ prev.status = "ok" /\ prev.deleted > 0
    /\ last.user = prev.user /\ last.occ = prev.occ
    /\ \E p \in parts : p.user_id = last.user

----------------------------------------------------------------------------
(* Claims about the ad-hoc calls *)

\* the occurrences the store held when the loop reached its i-th date: those
\* from before the call and those the earlier rounds of the call inserted
StoredBeforeRound(i) ==
    pre.occs \cup { o \in occs : \E j \in 1..(i - 1) :
                        /\ last.log[j].outcome = "created"
                        /\ last.log[j].id = o.id }

DesiredStart(i) == FromLocal(last.log[i].day, last.startTime.tod, LastLoc)
DesiredEnd(i)   == FromLocal(last.log[i].day, last.endTime.tod, LastLoc)

\* some occurrence scheduled on the i-th date, a calendar date of the
\* request's zone, runs into the desired window: existingStart < desiredEnd
\* and existingEnd > desiredStart, existingEnd being the start plus the
\* activity's estimated duration
OverlapOnDate(i) ==
    \E o \in StoredBeforeRound(i) :
        /\ LocalDay(o.scheduled_at, LastLoc) = last.log[i].day
        /\ o.scheduled_at < DesiredEnd(i)
        /\ o.scheduled_at + activities[o.activity_id] > DesiredStart(i)

PastDate(i) == FromLocal(last.log[i].day, 0, LastLoc) < last.at

\* C5: for a candidate date and window, the conflict check reports the user
\* unavailable exactly when some occurrence already scheduled on that date
\* starts before the desired end and ends after the desired start
C5_ConflictCheckHalfOpen ==
    last.op = "multiple" =>
        \A i \in DOMAIN last.log :
            last.log[i].outcome \in {"conflict", "created"} =>
                ((last.log[i].outcome = "conflict") <=> OverlapOnDate(i))

\* C6: a call with well-formed inputs succeeds; its result lists, in input
\* order, one new occurrence for exactly the dates that are not past and whose
\* window overlaps no existing occurrence, each at the date's start time; the
\* other dates are skipped without an error
C6_MultipleCreatesFreeDates ==
    (/\ last.op = "multiple"
     /\ last.startTime.valid /\ last.endTime.valid
     /\ \A k \in DOMAIN last.dates : last.dates[k].valid) =>
        /\ last.status = "ok"
        /\ Len(last.log) = Len(last.dates)
        /\ \A i \in DOMAIN last.log :
              /\ last.log[i].day = last.dates[i].day
              /\ (last.log[i].outcome = "created") <=> (~PastDate(i) /\ ~OverlapOnDate(i))
              /\ last.log[i].outcome = "created" =>
                    \E o \in occs \ pre.occs :
                        /\ o.id = last.log[i].id
                        /\ o.activity_id = last.activity
                        /\ o.scheduled_at = DesiredStart(i)
        /\ last.result = SelectSeq([i \in DOMAIN last.log |-> last.log[i].id], LAMBDA x : x # 0)
        /\ Cardinality(occs \ pre.occs) = Len(last.result)

----------------------------------------------------------------------------
(* Claims about the interleavings *)

\* C8: a read statement that runs while a series call is in progress returns
\* none of the rows the call has inserted, and one that runs after its commit
\* returns all of them that it selects (less the participations a decline has
\* deleted since); the tables never hold an occurrence of a call without the
\* call being committed and its participations being there
C8_ReadersSeeNoneOrAll ==
    \A w \in Writers :
        LET tx == repeatTx[w]
        IN  tx.pc # "idle" =>
              /\ view.reader # "none" =>
                    IF view.writers[w].ok
                    THEN LET all == Returned(view.reader, view.arg, tx.occRows,
                                             tx.partRows \ view.declined)
                         IN  /\ view.rows.occs \cap tx.occRows = all.occs
                             /\ view.rows.parts \cap tx.partRows = all.parts
                    ELSE /\ view.rows.occs \cap tx.occRows = {}
                         /\ view.rows.parts \cap tx.partRows = {}
              /\ (occs \cap tx.occRows # {} \/ parts \cap tx.partRows # {}) =>
                    /\ tx.pc = "done" /\ tx.status = "ok"
                    /\ tx.occRows \subseteq occs
                    /\ (tx.partRows \ Declined) \subseteq parts

\* a ReadAll ran when the call had inserted its occurrences and participations
\* and returned none of them, and the call has since committed
C8_Witness ==
    \E w \in Writers :
        /\ view.reader = "ReadAll"
        /\ view.writers[w].pc = "partsIn"
        /\ repeatTx[w].pc = "done" /\ repeatTx[w].status = "ok"
        /\ repeatTx[w].occRows # {} /\ repeatTx[w].partRows # {}
        /\ view.rows.occs \cap repeatTx[w].occRows = {}
        /\ repeatTx[w].occRows \subseteq occs

\* the occurrences of a committed call that are not before the instant, and
\* those of them the user holds a participation on
FutureOf(tx, instant) == { o \in tx.occRows : o.scheduled_at >= instant }
HeldOf(tx, userID, instant) ==
    { o \in FutureOf(tx, instant) : \E p \in parts : p.user_id = userID /\ p.occ = o.id }

\* a decline and a series call for the preference of the declined occurrence
\* have both finished, and they ran at the same time
RanBeside(w, d) ==
    /\ repeatTx[w].pc = "done" /\ repeatTx[w].status = "ok"
    /\ declineTx[d].pc = "done"
    /\ w \in declineTx[d].overlap
    /\ \E o \in occs : o.id = declineTx[d].occ /\ o.pref = repeatTx[w].pref

\* C9: after a decline of user u and a series call for the same preference
\* that ran at the same time have both finished, u holds participations on all
\* or on none of the call's future occurrences
C9_DeclineBesideSeriesAllOrNone ==
    \A w \in Writers, d \in Decliners :
        RanBeside(w, d) =>
            \A instant \in {declineTx[d].at, now} :
                \/ HeldOf(repeatTx[w], declineTx[d].user, instant) = {}
                \/ HeldOf(repeatTx[w], declineTx[d].user, instant)
                       = FutureOf(repeatTx[w], instant)

\* the decline began while the call was in progress, ran its DELETE after the
\* call's commit and removed the user from every new future occurrence
C9_Witness ==
    \E w \in Writers, d \in Decliners :
        /\ RanBeside(w, d)
        /\ declineTx[d].status = "ok"
        /\ declineTx[d].user \in repeatTx[w].users
        /\ FutureOf(repeatTx[w], now) # {}
        /\ HeldOf(repeatTx[w], declineTx[d].user, now) = {}
        /\ declineTx[d].deleted \cap repeatTx[w].partRows # {}

\* the last two calls are successful CreateRepeatingScheduledActivity calls
\* for the same preference, start time and zone, made on the same day
SameSeriesTwice ==
    /\ last.op = "repeat" /\ last.status = "ok"
    /\ prev.op = "repeat" /\ prev.status = "ok"
    /\ prev.pref = last.pref
    /\ prev.startTime = last.startTime
    /\ prev.timeZone = last.timeZone
    /\ LocalDay(prev.at, Local) = LocalDay(last.at, Local)

\* C16: CreateRepeatingScheduledActivity runs no conflict detection: every
\* kept instant gets a new occurrence also when the store already holds an
\* occurrence of the same activity at that instant, and a second call for the
\* same preference, start time and zone adds a second occurrence at every
\* instant of the first series.
C16_SeriesIgnoresConflicts ==
    /\ (last.op = "repeat" /\ last.status = "ok") =>
          LET P    == LastPreference
              day0 == LocalDay(last.at, Local)
              kept == KeptDays(P, ParseDaysOfWeek(P.days_of_week).days, last.at, Local)
          IN  \A d \in kept :
                 \E o \in occs :
                    /\ o.id \in last.result
                    /\ o.id \notin { q.id : q \in pre.occs }
                    /\ o.scheduled_at = FromLocal(day0 + d, last.startTime.tod, LastLoc)
    /\ SameSeriesTwice =>
          \A o \in occs :
              o.id \in prev.result =>
                 \E o2 \in occs :
                    /\ o2.id \in last.result
                    /\ o2.id # o.id
                    /\ o2.scheduled_at = o.scheduled_at
                    /\ o2.activity_id = o.activity_id
                    /\ o2.pref = o.pref

\* the same series made twice in a row on a store that already held an
\* occurrence of the activity at one of its instants: each instant of the
\* first series now has two occurrences or more
C16_Witness ==
    /\ SameSeriesTwice
    /\ Cardinality(prev.result) > 2
    /\ Cardinality(last.result) = Cardinality(prev.result)
    /\ \E o \in occs, q \in occs :
          /\ o.id \in prev.result
          /\ q.id \notin prev.result \cup last.result
          /\ q.activity_id = o.activity_id
          /\ q.scheduled_at = o.scheduled_at

----------------------------------------------------------------------------
(* Claims about the recurrence *)

\* the dates, in the request's zone, of the occurrences of the store
OccurrenceDates == { LocalDay(o.scheduled_at, LastLoc) : o \in occs }

\* C4: for period = week and frequency N the kept days are the days with a
\* weekday of W in the 7-day buckets 0, N, 2N, ... counted from the call;
\* when today's weekday is in W the first occurrence is today, and two
\* consecutive dates with the same weekday are exactly 7N days apart.
C4_WeeklySpacing ==
    (last.op = "repeat" /\ last.status = "ok" /\ LastPreference.frequency_period = "week") =>
        LET N    == LastPreference.frequency
            day0 == LocalDay(last.at, Local)
        IN  /\ OccurrenceDates =
                  { day0 + d : d \in { e \in WalkedDays(last.at, Local) :
                                         /\ Weekday(day0 + e) \in LastWeekdays
                                         /\ (e \div 7) % N = 0 } }
            /\ (Weekday(day0) \in LastWeekdays => day0 \in OccurrenceDates)
            /\ \A a, b \in OccurrenceDates :
                  ( /\ a < b
                    /\ Weekday(a) = Weekday(b)
                    /\ ~\E c \in OccurrenceDates : a < c /\ c < b /\ Weekday(c) = Weekday(a) )
                  => b - a = 7 * N

\* C10: every occurrence of a series has a date from the day of the call to
\* the day six months later, and a weekday of the preference's weekday set.
C10_DatesInHorizonOnWeekdays ==
    (last.op = "repeat" /\ last.status = "ok") =>
        \A date \in OccurrenceDates :
            /\ LocalDay(last.at, Local) <= date
            /\ date <= LocalDay(AddDate(last.at, Local, HorizonMonths, 0), Local)
            /\ Weekday(date) \in LastWeekdays

\* a series of twenty or more occurrences made for a request zone that is
\* not the host's, with an occurrence on the day of the call
C10_Witness ==
    /\ last.op = "repeat"
    /\ last.status = "ok"
    /\ last.timeZone # srvZone
    /\ Cardinality(occs) >= 20
    /\ LocalDay(last.at, Local) \in OccurrenceDates

\* the day counts d, from the day of the call, of the walked days whose
\* weekday is in the set and whose 730-hour bucket floor(24 d / 730) is a
\* multiple of N
MonthlyDays(N, weekdays, startDate, zone) ==
    { d \in WalkedDays(startDate, zone) :
        /\ Weekday(LocalDay(startDate, zone) + d) \in weekdays
        /\ ((24 * d) \div HoursPerMonth) % N = 0 }

\* C15: for period = month and frequency N the day d calendar days after the
\* call gets an occurrence exactly when its weekday is in the weekday set and
\* floor(24 d / 730) is a multiple of N; with N = 1 every day of the horizon
\* with a weekday of the set gets one.
C15_MonthlyBuckets ==
    (last.op = "repeat" /\ last.status = "ok" /\ LastPreference.frequency_period = "month") =>
        LET N    == LastPreference.frequency
            day0 == LocalDay(last.at, Local)
        IN  /\ OccurrenceDates = { day0 + d : d \in MonthlyDays(N, LastWeekdays, last.at, Local) }
            /\ Cardinality(occs) = Cardinality(OccurrenceDates)
            /\ N = 1 =>
                  OccurrenceDates =
                      { day0 + d : d \in { e \in WalkedDays(last.at, Local) :
                                             Weekday(day0 + e) \in LastWeekdays } }

\* a monthly series of every second bucket made on a host whose clock
\* changes within the horizon: it has dates in bucket 0 and in bucket 2, and
\* skips a day of bucket 1 with a weekday of the set
C15_Witness ==
    /\ last.op = "repeat"
    /\ last.status = "ok"
    /\ LastPreference.frequency_period = "month"
    /\ LastPreference.frequency = 2
    /\ srvZone = "America/Toronto"
    /\ \E a \in OccurrenceDates, b \in OccurrenceDates :
          /\ (24 * (a - LocalDay(last.at, Local))) \div HoursPerMonth = 0
          /\ (24 * (b - LocalDay(last.at, Local))) \div HoursPerMonth = 2
    /\ \E d \in WalkedDays(last.at, Local) :
          /\ Weekday(LocalDay(last.at, Local) + d) \in LastWeekdays
          /\ (24 * d) \div HoursPerMonth = 1
          /\ LocalDay(last.at, Local) + d \notin OccurrenceDates

----------------------------------------------------------------------------
(* Claims about rejected requests *)

\* the occurrence a decline named, as the store held it before the call
DeclinedOcc == CHOOSE o \in pre.occs : o.id = last.occ

\* C11: a DeclineRepeatedActivity that names an occurrence without an owning
\* preference (an ad-hoc occurrence) returns an error and deletes no
\* participation, those of the user on ad-hoc occurrences included.
C11_DeclineAdHocFails ==
    ( /\ last.op = "decline"
      /\ \E o \in pre.occs : o.id = last.occ
      /\ DeclinedOcc.pref = NoPref ) =>
        /\ last.status = "error"
        /\ last.deleted = 0
        /\ parts = pre.parts
        /\ occs = pre.occs

\* a decline of an ad-hoc occurrence by a user who holds a participation on
\* a later ad-hoc occurrence and one on a later occurrence of a series
C11_Witness ==
    /\ last.op = "decline"
    /\ \E o \in pre.occs : o.id = last.occ /\ o.pref = NoPref
    /\ \E p \in parts, o \in occs :
          o.id = p.occ /\ p.user_id = last.user /\ o.pref = NoPref /\ o.scheduled_at >= last.at
    /\ \E p \in parts, o \in occs :
          o.id = p.occ /\ p.user_id = last.user /\ o.pref # NoPref /\ o.scheduled_at >= last.at

\* the tokens of the weekday list of the preference of the last call
LastTokens ==
    { LastPreference.days_of_week[i] : i \in 1..Len(LastPreference.days_of_week) }

\* the tokens that denote one of the seven weekdays
WeekdayTokens == { s \in DOMAIN AtoiTable : AtoiTable[s] \in 0..6 }

NothingCreated ==
    /\ last.result = {}
    /\ occs = pre.occs
    /\ parts = pre.parts

\* C12: CreateRepeatingScheduledActivity for a preference whose frequency is
\* zero or negative returns an error (it neither panics nor schedules) and
\* creates no occurrence and no participation.
C12_NonPositiveFrequencyRejected ==
    (last.op = "repeat" /\ LastPreference.frequency <= 0) =>
        /\ last.status = "error"
        /\ NothingCreated

\* C13: CreateRepeatingScheduledActivity returns an error and creates nothing
\* whenever the weekday list holds a token that does not denote one of the
\* seven weekdays: the empty list, a non-numeric token, a number outside 0..6.
C13_MalformedWeekdaysRejected ==
    (last.op = "repeat" /\ ~(LastTokens \subseteq WeekdayTokens)) =>
        /\ last.status = "error"
        /\ NothingCreated

\* C14: CreateRepeatingScheduledActivity with an unknown time zone or an
\* unparseable start time returns an error before any day is examined and
\* persists nothing, also when no day would have qualified.
C14_BadZoneOrTimeFailsBeforeWalk ==
    (last.op = "repeat" /\ (last.timeZone \notin DOMAIN ZoneTable \/ ~last.startTime.valid)) =>
        /\ last.status = "error"
        /\ last.stage \in {"days", "zone", "time"}
        /\ last.inserted = {}
        /\ NothingCreated
        /\ occSeq = 3

\* calls with an unknown zone and with an unparseable start time whose
\* weekday list parses: one where no walked day would have qualified, one
\* where walking a day would have divided by zero
C14_Witness ==
    /\ last.op = "repeat"
    /\ last.status = "error"
    /\ ParseDaysOfWeek(LastPreference.days_of_week).ok
    /\ \/ /\ last.timeZone \notin DOMAIN ZoneTable
          /\ LastWeekdays \cap 0..6 = {}
       \/ /\ ~last.startTime.valid
          /\ last.timeZone \in DOMAIN ZoneTable
          /\ LastPreference.frequency = 0
          /\ LastWeekdays \cap 0..6 # {}

----------------------------------------------------------------------------
(* Claims about the participation table *)

\* another row of the table before the call held the pair the request names
PairTaken ==
    \E p \in pre.parts : p.id # last.id /\ p.user_id = last.user /\ p.occ = last.occ

\* the request named a row of the table (an insert always does)
RowNamed ==
    \/ last.op = "createParticipant"
    \/ last.op = "updateParticipant" /\ \E p \in pre.parts : p.id = last.id

\* C17: no two participation rows have the same user and occurrence; a
\* participation Create or Update that would give a second row a pair that
\* another row holds fails with an error and leaves the table unchanged.
C17_OneParticipationPerPair ==
    /\ \A p \in parts, q \in parts :
          (p.user_id = q.user_id /\ p.occ = q.occ) => p = q
    /\ ( /\ last.op \in {"createParticipant", "updateParticipant"}
         /\ RowNamed
         /\ PairTaken ) =>
           /\ last.status = "error"
           /\ parts = pre.parts

\* a Create and an Update that name a pair another row holds, the Update
\* after a series has fanned out its participations
C17_Witness ==
    /\ RowNamed
    /\ PairTaken
    /\ \/ last.op = "createParticipant"
       \/ last.op = "updateParticipant" /\ prev.op = "repeat" /\ Cardinality(parts) > 6

\* C18: every participation references an occurrence of the store: Delete of
\* an occurrence removes its participations with it, and a participation
\* Create or Update that names an occurrence that does not exist fails and
\* changes nothing.
C18_ParticipationsHaveOccurrence ==
    /\ \A p \in parts : \E o \in occs : o.id = p.occ
    /\ (last.op = "delete" /\ last.found) =>
          /\ ~\E o \in occs : o.id = last.id
          /\ ~\E p \in parts : p.occ = last.id
          /\ parts = { p \in pre.parts : p.occ # last.id }
          /\ occs = { o \in pre.occs : o.id # last.id }
    /\ ( /\ last.op \in {"createParticipant", "updateParticipant"}
         /\ RowNamed
         /\ ~\E o \in pre.occs : o.id = last.occ ) =>
           /\ last.status = "error"
           /\ parts = pre.parts

\* an occurrence deleted with the two participations it had, and after that
\* a Create or an Update of a participation that names the deleted occurrence
C18_Witness ==
    /\ prev.op = "delete"
    /\ prev.found
    /\ Cardinality(parts) + 2 = Cardinality(SeedParts)
    /\ last.op \in {"createParticipant", "updateParticipant"}
    /\ RowNamed
    /\ last.occ = prev.id

InviteStatuses == {"Pending", "Accepted", "Rejected"}

\* C19: the invite status of every participation is Pending, Accepted or
\* Rejected, also after a participation Create and after an Update that
\* carries the status of the request.
C19_InviteStatusEnumerated ==
    \A p \in parts : p.invite_status \in InviteStatuses

----------------------------------------------------------------------------
(* Claims about the activity edits *)

\* C20: an edit of an activity's estimated time does not change the duration
\* of the occurrences that already reference it: a batch of one date made
\* after the edit, on a store whose occurrences were all created before it,
\* skips the date exactly when the window overlaps one of them for the
\* estimated time its activity had when it was created.
C20_EditKeepsResolvedDuration ==
    ( /\ last.op = "multiple"
      /\ last.status = "ok"
      /\ pre.occs = EditedOccs
      /\ Len(last.log) = 1
      /\ last.log[1].outcome \in {"conflict", "created"} ) =>
        LET loc   == ZoneTable[last.timeZone]
            date  == FromLocal(last.log[1].day, last.startTime.tod, loc)
            check == checkIfUserIsAvailable(date, last.startTime.tod, last.endTime.tod, loc,
                                            Local, pre.occs, FirstEstimatedTimes)
        IN  (last.log[1].outcome = "created") <=> check.available

----------------------------------------------------------------------------
(* Claims about the single-occurrence calls *)

\* the request of the last call named a row of the occurrence table
OccurrenceNamed == \E o \in pre.occs : o.id = last.id

\* the activity and the preference of the body of the last Update exist
BodyReferencesExist ==
    /\ last.body.activity_id \in DOMAIN activities
    /\ (last.body.pref = NoPref \/ last.body.pref \in DOMAIN prefs)

----------------------------------------------------------------------------
(* Claims about the HTTP status codes *)

\* the series request named a preference id that matches no row
PreferenceMissing ==
    /\ last.op = "postRepeat"
    /\ last.preferenceID \in DOMAIN AtoiTable
    /\ AtoiTable[last.preferenceID] \notin DOMAIN prefs

\* the decline request named an occurrence that matches no row or that has
\* no owning preference
OccurrenceMissingOrAdHoc ==
    /\ last.op = "postDecline"
    /\ last.parsed
    /\ \A o \in pre.occs : o.id = AtoiTable[last.scheduledActivityID] => o.pref = NoPref

\* C22: a series request that names a preference that does not exist, and a
\* decline request that names an occurrence that does not exist or has no
\* owning preference, are answered with 404 and change no occurrence and no
\* participation.
C22_MissingIsNotFound ==
    (PreferenceMissing \/ OccurrenceMissingOrAdHoc) =>
        /\ last.code = StatusNotFound
        /\ occs = pre.occs
        /\ parts = pre.parts

\* a field of the series or batch request is malformed: the zone, the start
\* or end time, the date string, the weekday list of the preference
MalformedRequest ==
    \/ /\ last.op = "postRepeat"
       /\ last.found
       /\ \/ last.timeZone \notin DOMAIN ZoneTable
          \/ ~last.startTime.valid
          \/ ~ParseDaysOfWeek(prefs[AtoiTable[last.preferenceID]].days_of_week).ok
    \/ /\ last.op = "postMultiple"
       /\ \/ last.timeZone \notin DOMAIN ZoneTable
          \/ ~last.startTime.valid
          \/ ~last.endTime.valid
          \/ \E i \in 1..Len(last.dates) : ~last.dates[i].valid

\* C23: a batch or series request with a malformed zone, start or end time,
\* date string or weekday list is answered with 400, and a successful batch
\* or series creation with 201.
C23_MalformedIsBadRequest ==
    /\ MalformedRequest => last.code = StatusBadRequest
    /\ (last.op \in {"postRepeat", "postMultiple"} /\ last.status = "ok") =>
          last.code = StatusCreated

\* C25: a CreateMultiple that returns an error leaves no occurrence it
\* created in an earlier round: the call returns a result list or leaves the
\* occurrence table as it was.
C25_FailedBatchLeavesNothing ==
    (last.op = "multiple" /\ last.status = "error") =>
        /\ last.result = <<>>
        /\ occs = pre.occs

\* the i-th date of the last batch is the calendar date of the call in the
\* request's zone
DateIsToday(i) == last.log[i].day = LocalDay(last.at, LastLoc)

\* C27: CreateMultiple skips a selected date exactly when the midnight that
\* begins it in the request's zone lies before the current instant; the date
\* of the call is skipped even when the requested start time is still ahead;
\* every occurrence the call creates starts at or after the instant of the call
C27_SkipsDatesBegunBeforeNow ==
    last.op = "multiple" =>
        /\ \A i \in DOMAIN last.log :
              /\ last.log[i].outcome # "badDate" =>
                    ((last.log[i].outcome = "past") <=> PastDate(i))
              /\ (/\ last.log[i].outcome # "badDate"
                  /\ DateIsToday(i)
                  /\ FromLocal(last.log[i].day, 0, LastLoc) # last.at
                  /\ DesiredStart(i) > last.at) => last.log[i].outcome = "past"
        /\ \A o \in occs \ pre.occs : o.scheduled_at >= last.at

C27_Witness ==
    /\ last.op = "multiple"
    /\ \E i, j \in DOMAIN last.log :
          /\ DateIsToday(i) /\ DesiredStart(i) > last.at /\ last.log[i].outcome = "past"
          /\ last.log[j].outcome = "created"
          /\ \E o \in occs \ pre.occs : o.id = last.log[j].id

----------------------------------------------------------------------------
(* Claims about the concurrent batches *)

\* the days, in the zone of the request, on which invocation c created an
\* occurrence
CreatedDays(c) ==
    { LocalDay(o.scheduled_at, ZoneTable[multipleCall[c].timeZone]) : o \in multipleCall[c].created }

\* the time windows of the two invocations overlap
WindowsOverlap(c1, c2) ==
    /\ multipleCall[c1].startTime.tod < multipleCall[c2].endTime.tod
    /\ multipleCall[c2].startTime.tod < multipleCall[c1].endTime.tod

\* C24: two CreateMultiple invocations that select the same date with
\* overlapping windows never both create an occurrence on that date.
C24_ConcurrentBatchesExclusive ==
    \A c1 \in Callers, c2 \in Callers :
        ( /\ c1 # c2
          /\ multipleCall[c1].pc # "idle"
          /\ multipleCall[c2].pc # "idle"
          /\ WindowsOverlap(c1, c2) ) =>
            CreatedDays(c1) \cap CreatedDays(c2) = {}


----------------------------------------------------------------------------
(* The variant of the service that locks in CreateRepeatingScheduledActivity *)

\* Calls of the locking variant: a series with fortnightly Mondays, a series
\* whose weekday list names no weekday, single occurrences
LockedPrefs == [SeriesPrefs EXCEPT ![2].days_of_week = <<"7">>]
LockedStartTimes == { [valid |-> TRUE, tod |-> 8 * 60], [valid |-> FALSE, tod |-> 0] }
LockedTimeZones == {"UTC", "Mars/Olympus"}
LockedBodies ==
    [activity_id : {1, 9}, is_active : {TRUE},
     scheduled_at : {FromLocal(40, 8 * 60, ZoneTable["UTC"]), FromLocal(41, 8 * 60, ZoneTable["UTC"])},
     pref : {NoPref}]

InitLocked ==
    /\ srvZone = "UTC"
    /\ now = FromLocal(33, 9 * 60, ZoneTable[srvZone])
    /\ activities = [a \in {1, 2} |-> 60]
    /\ prefs = LockedPrefs
    /\ roster = SeriesRoster
    /\ occs = {} /\ parts = {} /\ occSeq = 1 /\ partSeq = 1
    /\ last = [op |-> "none"]
    /\ prev = [op |-> "none"]
    /\ pre = Tables
    /\ nOps = 0
    /\ NoStatements

NextLocked ==
    \/ \E g \in Goroutines, body \in LockedBodies : LockedCreateBegin(g, body)
    \/ \E g \in Goroutines, pid \in DOMAIN prefs, st \in LockedStartTimes, tz \in LockedTimeZones :
          LockedRepeatBegin(g, pid, st, tz)
    \/ \E g \in Goroutines : LockedCreate(g)
    \/ \E g \in Goroutines : LockedRepeatFinish(g)

SpecLocked == InitLocked /\ [][NextLocked]_vars

\* C26: in the variant that takes the service mutex and creates each
\* occurrence through Create of the same service instance, an invocation with
\* at least one qualifying day returns; it is never left acquiring, inside
\* Create, the mutex it already holds (a wait that nothing ends, as no other
\* goroutine unlocks that mutex).
C26_NeverWaitsOnOwnMutex ==
    \A g \in Goroutines :
        ~(/\ lockedCall[g].pc = "create"
          /\ lockedCall[g].kind = "repeat"
          /\ lockedCall[g].remaining # {}
          /\ mutex = g)

----------------------------------------------------------------------------
(* Specification of one batch called at the midnight that begins Monday
   2025-02-03 in the host zone or at 09:00 of that day, for the date of the
   call and the day after *)

SkipInstants == { 0, 9 * 60 }

SkipWindows ==
    { <<TimeOfDay(10, 0), TimeOfDay(11, 0)>>,
      <<TimeOfDay(10, 30), TimeOfDay(11, 30)>> }

InitSkips ==
    /\ srvZone \in DOMAIN ZoneTable
    /\ now \in { FromLocal(33, m, ZoneTable[srvZone]) : m \in SkipInstants }
    /\ activities = [a \in {1, 2} |-> IF a = 1 THEN 60 ELSE 90]
    /\ prefs = SeriesPrefs
    /\ roster = SeriesRoster
    /\ occs = {} /\ parts = {} /\ occSeq = 1 /\ partSeq = 1
    /\ last = [op |-> "none"]
    /\ prev = [op |-> "none"]
    /\ pre = Tables
    /\ nOps = MaxOps - 1
    /\ NoStatements

NextSkips ==
    \E dates \in SeqsUpTo(DateStrings, MaxDates), w \in SkipWindows, tz \in DOMAIN ZoneTable :
        CreateMultiple(1, dates, w[1], w[2], tz)

SpecSkips == InitSkips /\ [][NextSkips]_vars

----------------------------------------------------------------------------
(* Claims about the start of the occurrences of a series *)

\* C28: every occurrence created by CreateRepeatingScheduledActivity starts
\* at or after the instant of the call (so that a later decline, which
\* removes the participations that start at or after its own instant, covers
\* every occurrence created in the future of the creating call)
C28_SeriesStartsNotBeforeCall ==
    (last.op = "repeat" /\ last.status = "ok") =>
        \A o \in occs \ pre.occs : o.scheduled_at >= last.at

----------------------------------------------------------------------------
(* Specification of the frequency periods: one call for a preference whose
   period is whatever the preference table accepts (a VARCHAR(50) without a
   CHECK, filled by Create as received) *)

StoredPeriods == {"week", "weekly", "daily", ""}
PeriodFrequencies == {1, 2}
PeriodDaysOfWeek == { <<"1">>, <<"3", "6">>, <<"0", "1", "2", "3", "4", "5", "6">> }

InitPeriods ==
    /\ srvZone \in DOMAIN ZoneTable
    /\ now = FromLocal(33, 10 * 60, ZoneTable[srvZone])
    /\ activities = [a \in {1} |-> 60]
    /\ \E n \in PeriodFrequencies, per \in StoredPeriods, days \in PeriodDaysOfWeek :
          prefs = [p \in {1} |-> [id |-> 1, user_id |-> 1, activity_id |-> 1, frequency |-> n,
                                  frequency_period |-> per, days_of_week |-> days]]
    /\ roster = { <<1, u>> : u \in Users }
    /\ occs = SeedOccs /\ parts = SeedParts
    /\ occSeq = 3 /\ partSeq = 4
    /\ last = [op |-> "none"]
    /\ prev = [op |-> "none"]
    /\ pre = Tables
    /\ nOps = MaxOps - 1
    /\ NoStatements

NextPeriods ==
    \E st \in RequestStartTimes, tz \in RequestTimeZones :
        CreateRepeatingScheduledActivity(1, st, tz, "none")

SpecPeriods == InitPeriods /\ [][NextPeriods]_vars

----------------------------------------------------------------------------
(* Claims about the roster after a decline *)

\* the series call that is the last call follows a decline by which a user
\* left occurrences of the same preference
RepeatAfterDecline ==
    /\ last.op = "repeat" /\ last.status = "ok"
    /\ prev.op = "decline" /\ prev.status = "ok" /\ prev.deleted > 0
    /\ OwningPreference(pre.occs, prev.occ).pref = last.pref

\* C30: DeclineRepeatedActivity leaves the roster of the preference as it
\* was; a series call for the same preference after user u declined creates a
\* Pending participation for u on every occurrence it creates
C30_DeclineKeepsRoster ==
    /\ last.op = "decline" => roster = SeriesRoster
    /\ RepeatAfterDecline =>
          \A o \in occs \ pre.occs :
              \E p \in parts \ pre.parts :
                  /\ p.user_id = prev.user
                  /\ p.occ = o.id
                  /\ p.invite_status = "Pending"

C30_Witness ==
    /\ RepeatAfterDecline
    /\ occs \ pre.occs # {}
    /\ \A o \in occs \ pre.occs :
          \E p \in parts : p.user_id = prev.user /\ p.occ = o.id
====
